---- MODULE Spec2Model ----
(***************************************************************************)
(* Model of the question/answer application: the demo generation endpoint *)
(* (src/unnamed/part_001), the live generation endpoint                   *)
(* (src/app/api/generate/route.ts) and the question form                  *)
(* (src/components/question-form.tsx).                                    *)
(*                                                                         *)
(* Text is modelled by TLA+ strings; the JavaScript string methods the    *)
(* code uses (toLowerCase, includes, trim, startsWith, match, replace,    *)
(* JSON.parse) are operators that work character by character.            *)
(***************************************************************************)
EXTENDS Integers, Sequences, FiniteSets, TLC

(***************************************************************************)
(* Bounds of the model.                                                    *)
(***************************************************************************)
\* number of lexicon fragments concatenated into a scanned question
MaxFrags == 2
\* longest units array in the external model's topic response
MaxUnits == 7

\* the greatest length of a generated line of an answer
MaxLine == 5

(***************************************************************************)
(* JavaScript string methods.                                              *)
(***************************************************************************)
\* the i-th character of s, "" outside the string
CharAt(s, i) == IF i >= 1 /\ i <= Len(s) THEN SubSeq(s, i, i) ELSE ""

\* the upper-case letters and their lower-case forms
UpperToLower ==
  [A |-> "a", B |-> "b", C |-> "c", D |-> "d", E |-> "e", F |-> "f",
   G |-> "g", H |-> "h", I |-> "i", J |-> "j", K |-> "k", L |-> "l",
   M |-> "m", N |-> "n", O |-> "o", P |-> "p", Q |-> "q", R |-> "r",
   S |-> "s", T |-> "t", U |-> "u", V |-> "v", W |-> "w", X |-> "x",
   Y |-> "y", Z |-> "z"]

LowerChar(c) == IF c \in DOMAIN UpperToLower THEN UpperToLower[c] ELSE c

\* String.prototype.toLowerCase, computed by halves
RECURSIVE toLowerCase(_)
toLowerCase(s) ==
  IF Len(s) <= 1 THEN LowerChar(s)
  ELSE LET h == Len(s) \div 2 IN
       toLowerCase(SubSeq(s, 1, h)) \o toLowerCase(SubSeq(s, h + 1, Len(s)))

\* String.prototype.includes
includes(s, sub) ==
  \E i \in 1..(Len(s) - Len(sub) + 1) : SubSeq(s, i, i + Len(sub) - 1) = sub

\* String.prototype.startsWith
startsWith(s, prefix) ==
  Len(s) >= Len(prefix) /\ SubSeq(s, 1, Len(prefix)) = prefix

WhiteSpace == {" ", "\t", "\n", "\r"}

\* the least position in lo..hi whose character is in C (member = TRUE) or
\* outside C (member = FALSE), or 0; searched by halves
RECURSIVE FirstIn(_, _, _, _, _)
FirstIn(s, lo, hi, C, member) ==
  IF lo > hi THEN 0
  ELSE IF lo = hi THEN (IF (CharAt(s, lo) \in C) = member THEN lo ELSE 0)
  ELSE LET mid == (lo + hi) \div 2
           l == FirstIn(s, lo, mid, C, member)
       IN IF l # 0 THEN l ELSE FirstIn(s, mid + 1, hi, C, member)

\* the greatest such position, or 0
RECURSIVE LastIn(_, _, _, _, _)
LastIn(s, lo, hi, C, member) ==
  IF lo > hi THEN 0
  ELSE IF lo = hi THEN (IF (CharAt(s, lo) \in C) = member THEN lo ELSE 0)
  ELSE LET mid == (lo + hi) \div 2
           r == LastIn(s, mid + 1, hi, C, member)
       IN IF r # 0 THEN r ELSE LastIn(s, lo, mid, C, member)

trimStart(s) ==
  LET i == FirstIn(s, 1, Len(s), WhiteSpace, FALSE) IN
  IF i = 0 THEN "" ELSE SubSeq(s, i, Len(s))

trimEnd(s) ==
  LET i == LastIn(s, 1, Len(s), WhiteSpace, FALSE) IN
  IF i = 0 THEN "" ELSE SubSeq(s, 1, i)

\* String.prototype.trim
trim(s) == trimEnd(trimStart(s))

\* String.prototype.endsWith
endsWith(s, suffix) ==
  Len(s) >= Len(suffix) /\ SubSeq(s, Len(s) - Len(suffix) + 1, Len(s)) = suffix

\* s.slice(start, -fromEnd)
slice(s, start, fromEnd) ==
  IF start < Len(s) - fromEnd THEN SubSeq(s, start + 1, Len(s) - fromEnd) ELSE ""

\* the least position from i on at which sub stands in s, or 0
indexOf(s, sub, i) ==
  IF \E j \in i..(Len(s) - Len(sub) + 1) : SubSeq(s, j, j + Len(sub) - 1) = sub
  THEN CHOOSE j \in i..(Len(s) - Len(sub) + 1) :
         /\ SubSeq(s, j, j + Len(sub) - 1) = sub
         /\ \A k \in i..(j - 1) : SubSeq(s, k, k + Len(sub) - 1) # sub
  ELSE 0

UpperChar(c) ==
  IF \E u \in DOMAIN UpperToLower : UpperToLower[u] = c
  THEN CHOOSE u \in DOMAIN UpperToLower : UpperToLower[u] = c
  ELSE c

\* String.prototype.toUpperCase, computed by halves
RECURSIVE toUpperCase(_)
toUpperCase(s) ==
  IF Len(s) <= 1 THEN UpperChar(s)
  ELSE LET h == Len(s) \div 2 IN
       toUpperCase(SubSeq(s, 1, h)) \o toUpperCase(SubSeq(s, h + 1, Len(s)))

(***************************************************************************)
(* The keyword scan of the demo endpoint.                                  *)
(***************************************************************************)
DemoMathAnswer ==
  "In mathematics, this concept involves understanding the relationship between variables and constants. The key is to identify the pattern and apply the appropriate mathematical principles to solve the problem systematically."

DemoPhysicsAnswer ==
  "In physics, this phenomenon can be explained through the fundamental laws of motion and energy conservation. Understanding the underlying principles helps us predict and analyze the behavior of physical systems."

DemoChemistryAnswer ==
  "In chemistry, this process involves the interaction between different elements or compounds. The reaction follows specific patterns based on the properties of the substances involved and the conditions under which they interact."

DemoBiologyAnswer ==
  "In biology, this concept relates to the fundamental processes of life. Living organisms have evolved complex systems to maintain homeostasis and respond to their environment through various biological mechanisms."

DemoGeneralAnswer(topic) ==
  "This is an interesting question about " \o topic \o
  ". The answer involves understanding the core principles and applying logical reasoning to reach a comprehensive solution. Key factors to consider include the context, relevant theories, and practical applications."

\* the scan with the physics branch tested before the mathematics branch
DemoScanPhysicsFirst(question) ==
  LET questionLower == toLowerCase(question) IN
  IF includes(questionLower, "physics") \/ includes(questionLower, "force")
     \/ includes(questionLower, "energy")
  THEN [topic |-> "Physics",
        units |-> <<"Mechanics", "Energy", "Forces">>,
        answer |-> DemoPhysicsAnswer]
  ELSE IF includes(questionLower, "math") \/ includes(questionLower, "algebra")
     \/ includes(questionLower, "equation")
  THEN [topic |-> "Mathematics",
        units |-> <<"Algebra", "Equations", "Problem Solving">>,
        answer |-> DemoMathAnswer]
  ELSE IF includes(questionLower, "chemistry") \/ includes(questionLower, "reaction")
     \/ includes(questionLower, "element")
  THEN [topic |-> "Chemistry",
        units |-> <<"Elements", "Reactions", "Compounds">>,
        answer |-> DemoChemistryAnswer]
  ELSE IF includes(questionLower, "biology") \/ includes(questionLower, "cell")
     \/ includes(questionLower, "organism")
  THEN [topic |-> "Biology",
        units |-> <<"Cell Biology", "Organisms", "Life Processes">>,
        answer |-> DemoBiologyAnswer]
  ELSE [topic |-> "General Knowledge",
        units |-> <<"Fundamentals", "Concepts", "Applications">>,
        answer |-> DemoGeneralAnswer("General Knowledge")]

DemoScan(question) ==
  LET questionLower == toLowerCase(question) IN
  IF includes(questionLower, "math") \/ includes(questionLower, "algebra")
     \/ includes(questionLower, "equation")
  THEN [topic |-> "Mathematics",
        units |-> <<"Algebra", "Equations", "Problem Solving">>,
        answer |-> DemoMathAnswer]
  ELSE IF includes(questionLower, "physics") \/ includes(questionLower, "force")
     \/ includes(questionLower, "energy")
  THEN [topic |-> "Physics",
        units |-> <<"Mechanics", "Energy", "Forces">>,
        answer |-> DemoPhysicsAnswer]
  ELSE IF includes(questionLower, "chemistry") \/ includes(questionLower, "reaction")
     \/ includes(questionLower, "element")
  THEN [topic |-> "Chemistry",
        units |-> <<"Elements", "Reactions", "Compounds">>,
        answer |-> DemoChemistryAnswer]
  ELSE IF includes(questionLower, "biology") \/ includes(questionLower, "cell")
     \/ includes(questionLower, "organism")
  THEN [topic |-> "Biology",
        units |-> <<"Cell Biology", "Organisms", "Life Processes">>,
        answer |-> DemoBiologyAnswer]
  ELSE [topic |-> "General Knowledge",
        units |-> <<"Fundamentals", "Concepts", "Applications">>,
        answer |-> DemoGeneralAnswer("General Knowledge")]

(***************************************************************************)
(* The keyword-scan fallback of the live endpoint.                         *)
(***************************************************************************)
FallbackScan(question) ==
  LET questionLower == toLowerCase(question) IN
  IF includes(questionLower, "math") \/ includes(questionLower, "equation")
     \/ includes(questionLower, "formula")
  THEN [topic |-> "Mathematics",
        units |-> <<"Algebra", "Geometry", "Calculus", "Statistics">>]
  ELSE IF includes(questionLower, "physics") \/ includes(questionLower, "force")
     \/ includes(questionLower, "energy")
  THEN [topic |-> "Physics",
        units |-> <<"Mechanics", "Thermodynamics", "Electromagnetism",
                    "Modern Physics">>]
  ELSE IF includes(questionLower, "chemistry") \/ includes(questionLower, "chemical")
     \/ includes(questionLower, "molecule")
  THEN [topic |-> "Chemistry",
        units |-> <<"Atomic Structure", "Chemical Bonds", "Reactions",
                    "Organic Chemistry">>]
  ELSE IF includes(questionLower, "biology") \/ includes(questionLower, "cell")
     \/ includes(questionLower, "organism")
  THEN [topic |-> "Biology",
        units |-> <<"Cell Biology", "Genetics", "Ecology", "Evolution">>]
  ELSE [topic |-> "General Knowledge",
        units |-> <<"Fundamentals", "Key Concepts", "Applications", "Practice">>]

(***************************************************************************)
(* Questions handed to the two scans: concatenations of at most MaxFrags   *)
(* fragments.  The lexicon holds every keyword of either scan, upper-case  *)
(* spellings, and pieces that form a keyword only across a fragment        *)
(* boundary ("for" + "ce").                                                *)
(***************************************************************************)
Lexicon ==
  {"math", "MATH", "Algebra", "equation", "formula",
   "physics", "Force", "energy", "for", "ce",
   "chemistry", "Reaction", "element", "chemical", "molecule",
   "biology", "CELL", "organism", " what is ", "?"}

RECURSIVE Concat(_)
Concat(fs) == IF fs = <<>> THEN "" ELSE Head(fs) \o Concat(Tail(fs))

ScanQuestions ==
  UNION {{Concat(fs) : fs \in [1..n -> Lexicon]} : n \in 0..MaxFrags}

(***************************************************************************)
(* JavaScript values as JSON.parse produces them.  Numbers are integers    *)
(* and strings carry no escape sequences.                                  *)
(***************************************************************************)
Undefined == [t |-> "undefined"]
Null == [t |-> "null"]
Str(s) == [t |-> "string", s |-> s]
Num(n) == [t |-> "number", n |-> n]
Bool(b) == [t |-> "boolean", b |-> b]
Arr(a) == [t |-> "array", a |-> a]
Obj(m) == [t |-> "object", m |-> m]

\* property access o[key] on a parsed value: the last member of that name
Get(o, key) ==
  IF o.t # "object" THEN Undefined
  ELSE LET idx == {i \in 1..Len(o.m) : o.m[i].k = key} IN
       IF idx = {} THEN Undefined
       ELSE o.m[CHOOSE i \in idx : \A j \in idx : j <= i].v

\* JavaScript truthiness
Truthy(v) ==
  CASE v.t = "undefined" -> FALSE
    [] v.t = "null" -> FALSE
    [] v.t = "string" -> v.s # ""
    [] v.t = "number" -> v.n # 0
    [] v.t = "boolean" -> v.b
    [] OTHER -> TRUE

\* typeof v
TypeOf(v) ==
  CASE v.t = "null" -> "object"
    [] v.t = "array" -> "object"
    [] OTHER -> v.t

RECURSIVE NatToString(_)
NatToString(n) ==
  IF n < 10 THEN CharAt("0123456789", n + 1)
  ELSE NatToString(n \div 10) \o CharAt("0123456789", (n % 10) + 1)

\* String(v)
RECURSIVE ToStr(_)
RECURSIVE JoinStr(_)
ToStr(v) ==
  CASE v.t = "undefined" -> "undefined"
    [] v.t = "null" -> "null"
    [] v.t = "string" -> v.s
    [] v.t = "number" -> IF v.n < 0 THEN "-" \o NatToString(0 - v.n)
                         ELSE NatToString(v.n)
    [] v.t = "boolean" -> IF v.b THEN "true" ELSE "false"
    [] v.t = "array" -> JoinStr(v.a)
    [] OTHER -> "[object Object]"

\* Array.prototype.join(","), where null and undefined give the empty string
JoinStr(a) ==
  IF a = <<>> THEN ""
  ELSE LET h == IF Head(a).t \in {"null", "undefined"} THEN ""
                ELSE ToStr(Head(a))
       IN IF Len(a) = 1 THEN h ELSE h \o "," \o JoinStr(Tail(a))

(***************************************************************************)
(* JSON.parse: a recursive-descent parser over the characters of the text. *)
(* A parse step returns [ok, val, next]: whether a value starts at the     *)
(* position, the value, and the position after it.                         *)
(***************************************************************************)
Fail(i) == [ok |-> FALSE, val |-> Null, next |-> i]
Ok(v, i) == [ok |-> TRUE, val |-> v, next |-> i]

\* the first position from i on that holds no white space
SkipWS(s, i) ==
  LET j == FirstIn(s, i, Len(s), WhiteSpace, FALSE) IN
  IF j # 0 THEN j ELSE IF i > Len(s) THEN i ELSE Len(s) + 1

DigitChars == {"0", "1", "2", "3", "4", "5", "6", "7", "8", "9"}

DigitVal(c) == CHOOSE d \in 0..9 : CharAt("0123456789", d + 1) = c

\* the digits from position i on: [n, next]
RECURSIVE ScanDigits(_, _, _)
ScanDigits(s, i, acc) ==
  IF i <= Len(s) /\ CharAt(s, i) \in DigitChars
  THEN ScanDigits(s, i + 1, acc * 10 + DigitVal(CharAt(s, i)))
  ELSE [n |-> acc, next |-> i]

\* the number whose digits end before position e; d is where they start
NumberAt(s, i, d, e) ==
  IF e = d THEN Fail(i)
  ELSE IF CharAt(s, d) = "0" /\ e > d + 1 THEN Fail(i)
  ELSE Ok(Num(IF d > i THEN 0 - ScanDigits(s, d, 0).n ELSE ScanDigits(s, d, 0).n), e)

\* the end of the digits from position d on
DigitsEnd(s, d) ==
  IF FirstIn(s, d, Len(s), DigitChars, FALSE) = 0 THEN Len(s) + 1
  ELSE FirstIn(s, d, Len(s), DigitChars, FALSE)

ParseNumber(s, i) ==
  IF CharAt(s, i) = "-" THEN NumberAt(s, i, i + 1, DigitsEnd(s, i + 1))
  ELSE NumberAt(s, i, i, DigitsEnd(s, i))

\* the string between the quote at i and the closing quote at e; e = 0 when
\* the string is not closed or holds a backslash or a control character
StringAt(s, i, e) ==
  IF e = 0 \/ CharAt(s, e) # "\"" THEN Fail(i)
  ELSE Ok(Str(SubSeq(s, i + 1, e - 1)), e + 1)

ParseString(s, i) ==
  IF CharAt(s, i) # "\"" THEN Fail(i)
  ELSE StringAt(s, i, FirstIn(s, i + 1, Len(s), {"\"", "\\", "\n", "\r", "\t"}, TRUE))

HasPrefixAt(s, i, word) ==
  i + Len(word) - 1 <= Len(s) /\ SubSeq(s, i, i + Len(word) - 1) = word

RECURSIVE ParseValue(_, _)
RECURSIVE ParseElements(_, _, _)
RECURSIVE ParseMembers(_, _, _)

\* after "[" and white space: the closing bracket or the first element
ArrayAt(s, k) ==
  IF CharAt(s, k) = "]" THEN Ok(Arr(<<>>), k + 1) ELSE ParseElements(s, k, <<>>)

\* after "{" and white space: the closing brace or the first member
ObjectAt(s, k) ==
  IF CharAt(s, k) = "}" THEN Ok(Obj(<<>>), k + 1) ELSE ParseMembers(s, k, <<>>)

ParseValue(s, i) ==
  CASE CharAt(s, i) = "{" -> ObjectAt(s, SkipWS(s, i + 1))
    [] CharAt(s, i) = "[" -> ArrayAt(s, SkipWS(s, i + 1))
    [] CharAt(s, i) = "\"" -> ParseString(s, i)
    [] CharAt(s, i) \in DigitChars \cup {"-"} -> ParseNumber(s, i)
    [] HasPrefixAt(s, i, "true") -> Ok(Bool(TRUE), i + 4)
    [] HasPrefixAt(s, i, "false") -> Ok(Bool(FALSE), i + 5)
    [] HasPrefixAt(s, i, "null") -> Ok(Null, i + 4)
    [] OTHER -> Fail(i)

\* after the elements acc and white space, at position k: "," or "]"
ElementsNext(s, acc, k) ==
  IF CharAt(s, k) = "," THEN ParseElements(s, SkipWS(s, k + 1), acc)
  ELSE IF CharAt(s, k) = "]" THEN Ok(Arr(acc), k + 1)
  ELSE Fail(k)

\* after the parse r of an element
ElementsAfterValue(s, acc, r) ==
  IF ~r.ok THEN r ELSE ElementsNext(s, Append(acc, r.val), SkipWS(s, r.next))

\* the elements of an array from position i on, up to the closing bracket
ParseElements(s, i, acc) == ElementsAfterValue(s, acc, ParseValue(s, i))

\* after the members m and white space, at position k: "," or "}"
MembersNext(s, m, k) ==
  IF CharAt(s, k) = "," THEN ParseMembers(s, SkipWS(s, k + 1), m)
  ELSE IF CharAt(s, k) = "}" THEN Ok(Obj(m), k + 1)
  ELSE Fail(k)

\* after the parse r of the value of the member called name
MembersAfterValue(s, acc, name, r) ==
  IF ~r.ok THEN r
  ELSE MembersNext(s, Append(acc, [k |-> name, v |-> r.val]), SkipWS(s, r.next))

\* after the member name and white space, at position c: the colon
MembersAfterName(s, acc, name, c) ==
  IF CharAt(s, c) # ":" THEN Fail(c)
  ELSE MembersAfterValue(s, acc, name, ParseValue(s, SkipWS(s, c + 1)))

\* after the parse key of the member name
MembersAfterKey(s, acc, key) ==
  IF ~key.ok THEN key
  ELSE MembersAfterName(s, acc, key.val.s, SkipWS(s, key.next))

\* the members of an object from position i on, up to the closing brace
ParseMembers(s, i, acc) == MembersAfterKey(s, acc, ParseString(s, i))

\* the parse r of a value counts when only white space follows it
WholeText(s, r) ==
  IF r.ok /\ SkipWS(s, r.next) = Len(s) + 1 THEN r ELSE Fail(1)

\* JSON.parse(s): ok = FALSE stands for the SyntaxError it throws
JSONParse(s) == WholeText(s, ParseValue(s, SkipWS(s, 1)))

(***************************************************************************)
(* rawText.match(/\{[\s\S]*\}/) and the two fence-removing replace calls.  *)
(***************************************************************************)
\* first position of character c in s, or 0
FirstIndexOf(s, c) == FirstIn(s, 1, Len(s), {c}, TRUE)

\* last position of character c in s, or 0
LastIndexOf(s, c) == LastIn(s, 1, Len(s), {c}, TRUE)

\* the greedy match from the first "{" to the last "}"
MatchBraces(rawText) ==
  LET a == FirstIndexOf(rawText, "{")
      b == LastIndexOf(rawText, "}")
  IN IF a > 0 /\ b > a
     THEN [found |-> TRUE, text |-> SubSeq(rawText, a, b)]
     ELSE [found |-> FALSE, text |-> ""]

\* SANY strings cannot hold the backquote: the model writes it as "^"
BackQuote == "^"

Fence == BackQuote \o BackQuote \o BackQuote

\* the least position in lo..hi at which word starts, or 0
RECURSIVE FirstMatch(_, _, _, _)
FirstMatch(s, lo, hi, word) ==
  IF lo > hi THEN 0
  ELSE IF lo = hi THEN (IF HasPrefixAt(s, lo, word) THEN lo ELSE 0)
  ELSE LET mid == (lo + hi) \div 2
           l == FirstMatch(s, lo, mid, word)
       IN IF l # 0 THEN l ELSE FirstMatch(s, mid + 1, hi, word)

\* s.replace(/<fence>\n?/g, ""): one step per occurrence, left to right
RECURSIVE RemoveFence(_, _)
RemoveFence(s, fence) ==
  LET i == FirstMatch(s, 1, Len(s), fence) IN
  IF i = 0 THEN s
  ELSE LET n == IF CharAt(s, i + Len(fence)) = "\n" THEN Len(fence) + 1
                ELSE Len(fence)
       IN SubSeq(s, 1, i - 1) \o RemoveFence(SubSeq(s, i + n, Len(s)), fence)

(***************************************************************************)
(* encodeURIComponent over the printable ASCII characters: the unreserved  *)
(* characters stay, every other character becomes its percent escape.      *)
(***************************************************************************)
PercentEscapes ==
  (" " :> "%20") @@ ("\"" :> "%22") @@ ("#" :> "%23") @@ ("$" :> "%24") @@
  ("%" :> "%25") @@ ("&" :> "%26") @@ ("+" :> "%2B") @@ ("," :> "%2C") @@
  ("/" :> "%2F") @@ (":" :> "%3A") @@ (";" :> "%3B") @@ ("<" :> "%3C") @@
  ("=" :> "%3D") @@ (">" :> "%3E") @@ ("?" :> "%3F") @@ ("@" :> "%40") @@
  ("[" :> "%5B") @@ ("\\" :> "%5C") @@ ("]" :> "%5D") @@ ("{" :> "%7B") @@
  ("|" :> "%7C") @@ ("}" :> "%7D") @@ ("\n" :> "%0A") @@ ("\r" :> "%0D") @@
  ("\t" :> "%09") @@ (BackQuote :> "%60")

RECURSIVE encodeURIComponent(_)
encodeURIComponent(s) ==
  IF Len(s) <= 1 THEN
    (IF s \in DOMAIN PercentEscapes THEN PercentEscapes[s] ELSE s)
  ELSE LET h == Len(s) \div 2 IN
       encodeURIComponent(SubSeq(s, 1, h))
         \o encodeURIComponent(SubSeq(s, h + 1, Len(s)))

\* s.replace(/\s+/g, "+")
RECURSIVE ReplaceSpaceRuns(_)
ReplaceSpaceRuns(s) ==
  LET i == FirstIn(s, 1, Len(s), WhiteSpace, TRUE) IN
  IF i = 0 THEN s
  ELSE SubSeq(s, 1, i - 1) \o "+"
         \o ReplaceSpaceRuns(trimStart(SubSeq(s, i, Len(s))))

(***************************************************************************)
(* Responses and thrown errors.                                            *)
(***************************************************************************)
\* NextResponse.json(body, {status})
Respond(status, body) == [status |-> status, body |-> body]

NoResponse == Respond(0, [pending |-> TRUE])

\* an Error object; status 0 stands for "no status property"
Error(name, message, status) ==
  [name |-> name, hasMessage |-> TRUE, message |-> message, status |-> status]

\* err.message?.includes(sub)
MessageIncludes(err, sub) == err.hasMessage /\ includes(err.message, sub)

\* new Date().toISOString(): the clock is not modelled
Timestamp == "<ISO-8601>"

(***************************************************************************)
(* The live endpoint: the outer catch of POST.                             *)
(***************************************************************************)
OuterCatch(err, nodeEnv) ==
  LET default == "An unexpected error occurred while processing your request."
      r == IF err.name = "TypeError" /\ MessageIncludes(err, "fetch")
           THEN [m |-> "Network error occurred. Please check your internet connection.",
                 c |-> 503]
           ELSE IF MessageIncludes(err, "JSON")
           THEN [m |-> "Invalid data format received.", c |-> 400]
           ELSE IF MessageIncludes(err, "timeout")
           THEN [m |-> "Request timed out. Please try again with a smaller image.",
                 c |-> 408]
           ELSE IF err.status # 0
           THEN [m |-> IF err.hasMessage /\ err.message # "" THEN err.message
                       ELSE default,
                 c |-> err.status]
           ELSE [m |-> default, c |-> 500]
  IN IF nodeEnv = "development"
     THEN Respond(r.c, [success |-> FALSE, error |-> r.m, code |-> r.c,
                        timestamp |-> Timestamp,
                        details |-> [message |-> err.message, name |-> err.name]])
     ELSE Respond(r.c, [success |-> FALSE, error |-> r.m, code |-> r.c,
                        timestamp |-> Timestamp])

(***************************************************************************)
(* The live endpoint: validation, up to the first model call.              *)
(* The result is a response, a thrown error, or "pass".                    *)
(***************************************************************************)
maxSize == 10 * 1024 * 1024

Return(r) == [kind |-> "return", response |-> r]
Throw(e) == [kind |-> "throw", err |-> e]
Pass == [kind |-> "pass"]

\* !question and !imageFile on the values formData.get returns
QuestionMissing(req) == ~req.hasQuestion \/ req.question = ""
ImageMissing(req) == req.image.kind = "missing"

\* the size check with >= in place of >
LiveValidateStrictSize(env, req, init) ==
  IF ~env.GEMINI_API_KEY THEN
    Return(Respond(500, [error |-> "Gemini API key is not configured. Please set GEMINI_API_KEY in your environment variables."]))
  ELSE IF req.malformed THEN
    Return(Respond(400, [error |-> "Invalid form data format"]))
  ELSE IF QuestionMissing(req) \/ ImageMissing(req) THEN
    Return(Respond(400, [error |-> "Both question and image are required."]))
  ELSE IF Len(trim(req.question)) < 3 THEN
    Return(Respond(400, [error |-> "Question must be at least 3 characters long."]))
  ELSE IF req.image.kind = "string" THEN
    Throw(Error("TypeError",
                "Cannot read properties of undefined (reading 'startsWith')", 0))
  ELSE IF ~startsWith(req.image.type, "image/") THEN
    Return(Respond(400, [error |-> "Invalid file type. Please upload an image file (JPEG, PNG, GIF, WebP)."]))
  ELSE IF req.image.size >= maxSize THEN
    Return(Respond(413, [error |-> "Image file too large. Maximum size is 10MB."]))
  ELSE IF req.image.size = 0 THEN
    Return(Respond(400, [error |-> "Failed to process image file. Please try with a different image."]))
  ELSE IF init = "none" THEN
    Return(Respond(503, [error |-> "Gemini models are currently unavailable. Please try again later."]))
  ELSE Pass

\* the image checks placed before the question-length check
LiveValidateImageFirst(env, req, init) ==
  IF ~env.GEMINI_API_KEY THEN
    Return(Respond(500, [error |-> "Gemini API key is not configured. Please set GEMINI_API_KEY in your environment variables."]))
  ELSE IF req.malformed THEN
    Return(Respond(400, [error |-> "Invalid form data format"]))
  ELSE IF QuestionMissing(req) \/ ImageMissing(req) THEN
    Return(Respond(400, [error |-> "Both question and image are required."]))
  ELSE IF req.image.kind = "string" THEN
    Throw(Error("TypeError",
                "Cannot read properties of undefined (reading 'startsWith')", 0))
  ELSE IF ~startsWith(req.image.type, "image/") THEN
    Return(Respond(400, [error |-> "Invalid file type. Please upload an image file (JPEG, PNG, GIF, WebP)."]))
  ELSE IF req.image.size > maxSize THEN
    Return(Respond(413, [error |-> "Image file too large. Maximum size is 10MB."]))
  ELSE IF Len(trim(req.question)) < 3 THEN
    Return(Respond(400, [error |-> "Question must be at least 3 characters long."]))
  ELSE IF req.image.size = 0 THEN
    Return(Respond(400, [error |-> "Failed to process image file. Please try with a different image."]))
  ELSE IF init = "none" THEN
    Return(Respond(503, [error |-> "Gemini models are currently unavailable. Please try again later."]))
  ELSE Pass

\* the checks with the size check ahead of the type check
LiveValidateSizeFirst(env, req, init) ==
  IF ~env.GEMINI_API_KEY THEN
    Return(Respond(500, [error |-> "Gemini API key is not configured. Please set GEMINI_API_KEY in your environment variables."]))
  ELSE IF req.malformed THEN
    Return(Respond(400, [error |-> "Invalid form data format"]))
  ELSE IF QuestionMissing(req) \/ ImageMissing(req) THEN
    Return(Respond(400, [error |-> "Both question and image are required."]))
  ELSE IF Len(trim(req.question)) < 3 THEN
    Return(Respond(400, [error |-> "Question must be at least 3 characters long."]))
  ELSE IF req.image.size > maxSize THEN
    Return(Respond(413, [error |-> "Image file too large. Maximum size is 10MB."]))
  ELSE IF req.image.kind = "string" THEN
    Throw(Error("TypeError",
                "Cannot read properties of undefined (reading 'startsWith')", 0))
  ELSE IF ~startsWith(req.image.type, "image/") THEN
    Return(Respond(400, [error |-> "Invalid file type. Please upload an image file (JPEG, PNG, GIF, WebP)."]))
  ELSE IF req.image.size = 0 THEN
    Return(Respond(400, [error |-> "Failed to process image file. Please try with a different image."]))
  ELSE IF init = "none" THEN
    Return(Respond(503, [error |-> "Gemini models are currently unavailable. Please try again later."]))
  ELSE Pass

\* init is the outcome of getGenerativeModel: the flash model, the pro model
\* after the flash model threw, or "none" when both calls threw
LiveValidate(env, req, init) ==
  IF ~env.GEMINI_API_KEY THEN
    Return(Respond(500, [error |-> "Gemini API key is not configured. Please set GEMINI_API_KEY in your environment variables."]))
  ELSE IF req.malformed THEN
    Return(Respond(400, [error |-> "Invalid form data format"]))
  ELSE IF QuestionMissing(req) \/ ImageMissing(req) THEN
    Return(Respond(400, [error |-> "Both question and image are required."]))
  ELSE IF Len(trim(req.question)) < 3 THEN
    Return(Respond(400, [error |-> "Question must be at least 3 characters long."]))
  ELSE IF req.image.kind = "string" THEN
    \* a text field named image has no type: imageFile.type.startsWith throws
    Throw(Error("TypeError",
                "Cannot read properties of undefined (reading 'startsWith')", 0))
  ELSE IF ~startsWith(req.image.type, "image/") THEN
    Return(Respond(400, [error |-> "Invalid file type. Please upload an image file (JPEG, PNG, GIF, WebP)."]))
  ELSE IF req.image.size > maxSize THEN
    Return(Respond(413, [error |-> "Image file too large. Maximum size is 10MB."]))
  ELSE IF req.image.size = 0 THEN
    \* arrayBuffer.byteLength === 0
    Return(Respond(400, [error |-> "Failed to process image file. Please try with a different image."]))
  ELSE IF init = "none" THEN
    Return(Respond(503, [error |-> "Gemini models are currently unavailable. Please try again later."]))
  ELSE Pass

(***************************************************************************)
(* The live endpoint, step 1: answer generation.                           *)
(***************************************************************************)
UnableAnswer ==
  "I was unable to generate a detailed answer for your question. Please try rephrasing your question or using a different image."

GenericAnswer ==
  "I encountered an issue while analyzing your image. Please try again with a different image or rephrase your question."

\* the catch block of step 1 with the quota test ahead of the 404 test
ClassifyAnswerErrorQuotaFirst(geminiError) ==
  IF MessageIncludes(geminiError, "quota") \/ geminiError.status = 429 THEN
    [abort |-> TRUE, response |-> Respond(429, [error |-> "API usage limit exceeded. Please try again later."])]
  ELSE IF MessageIncludes(geminiError, "404") \/ geminiError.status = 404 THEN
    [abort |-> TRUE, response |-> Respond(503, [error |-> "The AI model is temporarily unavailable. Please try again later."])]
  ELSE IF MessageIncludes(geminiError, "timeout") THEN
    [abort |-> TRUE, response |-> Respond(408, [error |-> "Request timed out. The image might be too complex or large. Please try with a smaller image."])]
  ELSE IF MessageIncludes(geminiError, "SAFETY") \/ MessageIncludes(geminiError, "blocked") THEN
    [abort |-> TRUE, response |-> Respond(400, [error |-> "Content was blocked due to safety policies. Please try with a different image or question."])]
  ELSE [abort |-> FALSE, answer |-> GenericAnswer]

\* the catch block of step 1 without the timeout test
ClassifyAnswerErrorTimeoutContinues(geminiError) ==
  IF MessageIncludes(geminiError, "404") \/ geminiError.status = 404 THEN
    [abort |-> TRUE, response |-> Respond(503, [error |-> "The AI model is temporarily unavailable. Please try again later."])]
  ELSE IF MessageIncludes(geminiError, "quota") \/ geminiError.status = 429 THEN
    [abort |-> TRUE, response |-> Respond(429, [error |-> "API usage limit exceeded. Please try again later."])]
  ELSE IF MessageIncludes(geminiError, "SAFETY") \/ MessageIncludes(geminiError, "blocked") THEN
    [abort |-> TRUE, response |-> Respond(400, [error |-> "Content was blocked due to safety policies. Please try with a different image or question."])]
  ELSE [abort |-> FALSE, answer |-> GenericAnswer]

\* the catch block of step 1 ending the request on every error
ClassifyAnswerErrorAbortsAll(geminiError) ==
  IF MessageIncludes(geminiError, "404") \/ geminiError.status = 404 THEN
    [abort |-> TRUE, response |-> Respond(503, [error |-> "The AI model is temporarily unavailable. Please try again later."])]
  ELSE IF MessageIncludes(geminiError, "quota") \/ geminiError.status = 429 THEN
    [abort |-> TRUE, response |-> Respond(429, [error |-> "API usage limit exceeded. Please try again later."])]
  ELSE IF MessageIncludes(geminiError, "timeout") THEN
    [abort |-> TRUE, response |-> Respond(408, [error |-> "Request timed out. The image might be too complex or large. Please try with a smaller image."])]
  ELSE IF MessageIncludes(geminiError, "SAFETY") \/ MessageIncludes(geminiError, "blocked") THEN
    [abort |-> TRUE, response |-> Respond(400, [error |-> "Content was blocked due to safety policies. Please try with a different image or question."])]
  ELSE [abort |-> TRUE, response |-> Respond(500, [error |-> GenericAnswer])]

\* the catch block of step 1: a response that ends the request, or the
\* generic answer with which the request goes on
ClassifyAnswerError(geminiError) ==
  IF MessageIncludes(geminiError, "404") \/ geminiError.status = 404 THEN
    [abort |-> TRUE, response |-> Respond(503, [error |-> "The AI model is temporarily unavailable. Please try again later."])]
  ELSE IF MessageIncludes(geminiError, "quota") \/ geminiError.status = 429 THEN
    [abort |-> TRUE, response |-> Respond(429, [error |-> "API usage limit exceeded. Please try again later."])]
  ELSE IF MessageIncludes(geminiError, "timeout") THEN
    [abort |-> TRUE, response |-> Respond(408, [error |-> "Request timed out. The image might be too complex or large. Please try with a smaller image."])]
  ELSE IF MessageIncludes(geminiError, "SAFETY") \/ MessageIncludes(geminiError, "blocked") THEN
    [abort |-> TRUE, response |-> Respond(400, [error |-> "Content was blocked due to safety policies. Please try with a different image or question."])]
  ELSE [abort |-> FALSE, answer |-> GenericAnswer]

\* the extraction without the placeholder and length check
ExtractAnswerUnchecked(answerResult) ==
  IF answerResult.candidates # "some" THEN
    ClassifyAnswerError(Error("Error", "No response candidates received from Gemini", 0))
  ELSE IF answerResult.parts # "some" THEN
    ClassifyAnswerError(Error("Error", "No content parts in response", 0))
  ELSE [abort |-> FALSE,
        answer |-> IF answerResult.hasText THEN trim(answerResult.text) ELSE ""]

\* the try block of step 1 on the value the race resolved with
ExtractAnswer(answerResult) ==
  IF answerResult.candidates # "some" THEN
    ClassifyAnswerError(Error("Error", "No response candidates received from Gemini", 0))
  ELSE IF answerResult.parts # "some" THEN
    ClassifyAnswerError(Error("Error", "No content parts in response", 0))
  ELSE LET text == IF answerResult.hasText THEN trim(answerResult.text) ELSE ""
           answer == IF text # "" THEN text ELSE "No answer generated."
       IN [abort |-> FALSE,
           answer |-> IF answer = "No answer generated." \/ Len(answer) < 10
                      THEN UnableAnswer ELSE answer]

\* step 1 on what the race settled with
AnswerStep(outcome) ==
  IF outcome.kind = "resolve" THEN ExtractAnswer(outcome.result)
  ELSE ClassifyAnswerError(outcome.err)

(***************************************************************************)
(* The live endpoint, step 2: topic and unit extraction.                   *)
(***************************************************************************)
Fallback(question) == [source |-> "fallback"] @@ FallbackScan(question)

\* the units taken over without slice(0, 6)
MapNoSlice(units) == [i \in 1..Len(units) |-> ToStr(units[i])]

\* topicInfo.units.map((unit) => String(unit)).slice(0, 6)
MapSlice(units) ==
  [i \in 1..(IF Len(units) < 6 THEN Len(units) ELSE 6) |-> ToStr(units[i])]

\* the checks of topicInfo.topic and topicInfo.units, without the length check
CheckTopicFieldsAnyLength(question, topic, units) ==
  IF ~Truthy(topic) \/ TypeOf(topic) # "string" THEN Fallback(question)
  ELSE IF units.t # "array" THEN Fallback(question)
  ELSE [topic |-> topic.s, units |-> MapSlice(units.a), source |-> "parsed"]

\* the checks of topicInfo.topic and topicInfo.units, and the units kept
CheckTopicFields(question, topic, units) ==
  IF ~Truthy(topic) \/ TypeOf(topic) # "string" THEN Fallback(question)
  ELSE IF units.t # "array" \/ Len(units.a) = 0 THEN Fallback(question)
  ELSE [topic |-> topic.s, units |-> MapSlice(units.a), source |-> "parsed"]

\* the check that the parsed value is an object
CheckTopicInfo(question, topicInfo) ==
  IF ~Truthy(topicInfo) \/ TypeOf(topicInfo) # "object" THEN Fallback(question)
  ELSE CheckTopicFields(question, Get(topicInfo, "topic"), Get(topicInfo, "units"))

\* on the result of JSON.parse: a SyntaxError goes to the catch block
ValidateParsed(question, parsed) ==
  IF ~parsed.ok THEN Fallback(question) ELSE CheckTopicInfo(question, parsed.val)

\* jsonString: the brace match when there is one, else the raw text, with
\* the fence markers removed
JsonString(rawText, jsonMatch) ==
  RemoveFence(RemoveFence(IF jsonMatch.found THEN jsonMatch.text ELSE rawText,
                          Fence \o "json"),
              Fence)

\* step 2 with the catch block scanning the model's text for keywords
ExtractTopicTextScanned(question, rawText) ==
  IF rawText = "" THEN Fallback(rawText)
  ELSE ValidateParsed(rawText, JSONParse(JsonString(rawText, MatchBraces(rawText))))

\* step 2 on the trimmed text of the response; undefined and "" are both falsy
ExtractTopicText(question, rawText) ==
  IF rawText = "" THEN Fallback(question)
  ELSE ValidateParsed(question, JSONParse(JsonString(rawText, MatchBraces(rawText))))

\* the try and catch blocks of step 2 on what the race settled with
ExtractTopic(question, outcome) ==
  IF outcome.kind = "reject" THEN Fallback(question)
  ELSE ExtractTopicText(question,
                        IF outcome.hasText THEN trim(outcome.text) ELSE "")

\* steps 3 and 4: the visualization URL and the successful response
SuccessResponse(req, answer, topicInfo) ==
  Respond(200,
    [success |-> TRUE,
     answer |-> answer,
     visualization |-> "https://via.placeholder.com/600x400/10b981/ffffff?text="
                        \o encodeURIComponent(ReplaceSpaceRuns(topicInfo.topic)),
     topic |-> topicInfo.topic,
     units |-> topicInfo.units,
     metadata |-> [imageSize |-> req.image.size,
                   imageType |-> req.image.type,
                   questionLength |-> Len(req.question),
                   timestamp |-> Timestamp]])

(***************************************************************************)
(* The demo endpoint.                                                      *)
(***************************************************************************)
colors ==
  [Mathematics |-> "3b82f6", Physics |-> "ef4444", Chemistry |-> "10b981",
   Biology |-> "f59e0b"] @@ ("General Knowledge" :> "8b5cf6")

\* the handler up to the delay, with the live endpoint's check of the type
DemoValidateTyped(req) ==
  IF req.malformed THEN
    Return(Respond(500, [error |-> "Failed to generate answer"]))
  ELSE IF QuestionMissing(req) \/ ImageMissing(req) THEN
    Return(Respond(400, [error |-> "Question and image are required"]))
  ELSE IF ~startsWith(req.image.type, "image/") THEN
    Return(Respond(400, [error |-> "Question and image are required"]))
  ELSE Pass

\* the handler up to the artificial delay
DemoValidate(req) ==
  IF req.malformed THEN
    \* request.formData() throws into the handler's catch
    Return(Respond(500, [error |-> "Failed to generate answer"]))
  ELSE IF QuestionMissing(req) \/ ImageMissing(req) THEN
    Return(Respond(400, [error |-> "Question and image are required"]))
  ELSE Pass

\* the handler after the delay
DemoResponse(req) ==
  LET r == DemoScan(req.question)
      color == IF r.topic \in DOMAIN colors THEN colors[r.topic]
               ELSE colors["General Knowledge"]
  IN Respond(200,
       [answer |-> r.answer,
        visualization |-> "https://via.placeholder.com/600x400/" \o color
                          \o "/ffffff?text="
                          \o encodeURIComponent(r.topic \o " Diagram"),
        topic |-> r.topic,
        units |-> r.units])

VARIABLES
  env,            \* process.env: whether GEMINI_API_KEY is set
  genAI,          \* the module-level client handle has been created
  endpoint,       \* the handler of the current request: "none", "demo", "live"
  pc,             \* where the handler stands
  request,        \* the request being handled
  model,          \* the generative model the handler obtained
  answerOutcome,  \* what the answer race settled with
  answer,         \* the handler's variable answer
  topicOutcome,   \* what the topic race settled with
  topicInfo,      \* the handler's variable topicInfo
  response,       \* the response sent
  answerCall,     \* model.generateContent of step 1: "none", "pending", "settled"
  answerTimer,    \* the 30 s timer: "off", "armed", "fired"
  topicCall,      \* model.generateContent of step 2
  topicTimer      \* the 15 s timer

serverVars ==
  <<env, genAI, endpoint, pc, request, model, answerOutcome, answer,
    topicOutcome, topicInfo, response, answerCall, answerTimer, topicCall,
    topicTimer>>

VARIABLES
  question,          \* the form's question text
  image,             \* the file the form holds, or NoImage
  imagePreview,      \* the data URL shown as preview, or NoPreview
  isLoading,         \* a submission is under way
  progress,          \* the synthetic progress value
  isDemoMode,        \* the demo endpoint is selected
  isClient,          \* the mount effect has run
  readers,           \* the files whose FileReader has not finished yet
  progressInterval,  \* the interval of simulateProgress is set
  fetchCall,         \* the request in flight, or NoFetch
  toasts,            \* the notification shown last, or NoToast
  localStorage,      \* the item "answerResult", or NoItem
  navTimer,          \* the timeout that navigates to /results is set
  pathname,          \* the route shown
  orphans,           \* the requests in flight of forms that are gone
  parsedResult,      \* the Result the results page holds, or NoResult
  resultsLoading     \* the results page's effect has not run yet

VARIABLES
  answerLine,     \* a line of resultData.answer
  rendered,       \* what the answer panel shows for the line, once rendered
  activePanel,    \* the panel of the single view
  isExpanded,     \* the wide layout is on
  showAllPanels   \* all panels are shown at once

displayVars == <<answerLine, rendered, activePanel, isExpanded, showAllPanels>>

formVars ==
  <<question, image, imagePreview, isLoading, progress, isDemoMode, isClient,
    readers, progressInterval, fetchCall, toasts, localStorage, navTimer,
    pathname, orphans, parsedResult, resultsLoading, displayVars>>

\* the state outside the mounted form
pageVars == <<orphans, parsedResult, resultsLoading, displayVars>>

VARIABLES
  scanQuestion,   \* the question under scan
  scanDemo,       \* the demo endpoint's scan result, once computed
  scanFallback,   \* the live endpoint's fallback scan result, once computed
  scanDone        \* which of the two scans have run

scanVars == <<scanQuestion, scanDemo, scanFallback, scanDone>>

NoScan == [topic |-> "", units |-> <<>>]

ScanInit ==
  /\ scanQuestion \in ScanQuestions
  /\ scanDemo = NoScan
  /\ scanFallback = NoScan
  /\ scanDone = {}

RunDemoScan ==
  /\ "demo" \notin scanDone
  /\ scanDemo' = [topic |-> DemoScan(scanQuestion).topic,
                  units |-> DemoScan(scanQuestion).units]
  /\ scanDone' = scanDone \cup {"demo"}
  /\ UNCHANGED <<scanQuestion, scanFallback, serverVars, formVars>>

RunFallbackScan ==
  /\ "fallback" \notin scanDone
  /\ scanFallback' = FallbackScan(scanQuestion)
  /\ scanDone' = scanDone \cup {"fallback"}
  /\ UNCHANGED <<scanQuestion, scanDemo, serverVars, formVars>>

(***************************************************************************)
(* Inputs of the endpoints.                                                *)
(***************************************************************************)
NoError == [name |-> "", hasMessage |-> FALSE, message |-> "", status |-> 0]

Questions ==
  {"", "  ", "ab", " ab\n", "abc", "What is FORCE in math?", "Explain Algebra"}

Images ==
  {[kind |-> "missing", type |-> "", size |-> 0],
   [kind |-> "string", type |-> "", size |-> 0]}
  \cup [kind : {"file"}, type : {"image/png", "application/pdf", ""},
        size : {0, 1, maxSize, maxSize + 1}]

Requests ==
  {[malformed |-> TRUE, hasQuestion |-> FALSE, question |-> "",
    image |-> [kind |-> "missing", type |-> "", size |-> 0]]}
  \cup [malformed : {FALSE}, hasQuestion : {TRUE}, question : Questions,
        image : Images]
  \cup [malformed : {FALSE}, hasQuestion : {FALSE}, question : {""},
        image : Images]

NoRequest ==
  [malformed |-> FALSE, hasQuestion |-> FALSE, question |-> "",
   image |-> [kind |-> "missing", type |-> "", size |-> 0]]

\* what the answer call resolves with: response.candidates, the first
\* candidate's content.parts, and the first part's text
AnswerResults ==
  {[candidates |-> "undefined", parts |-> "undefined", hasText |-> FALSE, text |-> ""],
   [candidates |-> "empty", parts |-> "undefined", hasText |-> FALSE, text |-> ""],
   [candidates |-> "some", parts |-> "empty", hasText |-> FALSE, text |-> ""],
   [candidates |-> "some", parts |-> "some", hasText |-> FALSE, text |-> ""]}
  \cup [candidates : {"some"}, parts : {"some"}, hasText : {TRUE},
        text : {" \n ", "Too short", "  Ten chars \n", "No answer generated.",
                "The picture shows a lever: force times distance is constant."}]

NoAnswerResult ==
  [candidates |-> "undefined", parts |-> "undefined", hasText |-> FALSE, text |-> ""]

\* what the answer call rejects with
AnswerErrors ==
  {Error("Error", "[404 Not Found] models/gemini-2.0-flash is not found", 404),
   Error("Error", "Not Found", 404),
   Error("Error", "You exceeded your current quota", 0),
   Error("Error", "Too Many Requests", 429),
   Error("Error", "The operation hit its timeout", 0),
   Error("Error", "Candidate was blocked due to SAFETY", 0),
   Error("Error", "Response was blocked", 0),
   Error("Error", "quota check hit a timeout after a 404", 0),
   Error("Error", "safety timeout", 429),
   Error("Error", "Request Timeout", 0),
   Error("Error", "Internal error encountered", 500),
   NoError}

\* the texts of the topic call's response: JSON objects with and without
\* the members topic and units, written with separator sp after each
\* punctuation mark
ElementText(i) ==
  IF i % 3 = 0 THEN NatToString(i)
  ELSE "\"Unit " \o NatToString(i) \o "\""

RECURSIVE ElementsText(_, _)
ElementsText(k, sp) ==
  IF k = 0 THEN ""
  ELSE IF k = 1 THEN ElementText(1)
  ELSE ElementsText(k - 1, sp) \o "," \o sp \o ElementText(k)

UnitsArrayText(k, sp) == "[" \o sp \o ElementsText(k, sp) \o sp \o "]"

TopicMembers ==
  {"", "\"topic\":\"Physics\"", "\"topic\":\"\"",
   "\"topic\":\"Organic  Chemistry\"", "\"topic\":7", "\"topic\":null"}

UnitsMembers ==
  {"", "\"units\":\"Mechanics\"", "\"units\":null",
   "\"units\":[null,true,{\"name\":\"Optics\"},[1,2]]"}
  \cup {"\"units\":" \o UnitsArrayText(k, "") : k \in 0..MaxUnits}

ObjectText(t, u, sp) ==
  "{" \o sp \o t \o (IF t # "" /\ u # "" THEN "," \o sp ELSE "") \o u \o sp \o "}"

Fenced(t) == Fence \o "json\n" \o t \o "\n" \o Fence

\* a JSON text in code fences, in fences with prose around, after prose with
\* braces, and in fences after prose with braces
Wrappings(t) ==
  {Fenced(t),
   "Here is the JSON:\n" \o Fenced(t) \o "\nHope this helps!",
   "Set {topic} and {units}: " \o t,
   "Set {topic} and {units}: " \o Fenced(t)}

WrappedTexts ==
  UNION {Wrappings(ObjectText("\"topic\":\"Physics\"",
                              "\"units\":" \o UnitsArrayText(k, sp), sp))
         : k \in {2, MaxUnits}, sp \in {"", "\n  "}}

JunkTexts ==
  {"", " \n ", "The topic is Physics.", "{topic: \"Physics\"}", "[\"Mechanics\"]",
   "null", "\"Physics\"", "42", "{\"topic\":\"Physics\",\"units\":[\"Mechanics\"",
   Fence \o "json\n" \o Fence}

TopicTexts ==
  {ObjectText(t, u, "") : t \in TopicMembers,
                          u \in {"", "\"units\":null", "\"units\":[\"Optics\"]"}}
  \cup {ObjectText(t, u, "") : t \in {"\"topic\":\"Physics\""}, u \in UnitsMembers}
  \cup WrappedTexts \cup JunkTexts

\* what the topic call settles with
TopicOutcomes ==
  [kind : {"resolve"}, hasText : {TRUE}, text : TopicTexts, err : {NoError}]
  \cup {[kind |-> "resolve", hasText |-> FALSE, text |-> "", err |-> NoError],
        [kind |-> "reject", hasText |-> FALSE, text |-> "",
         err |-> Error("Error", "Internal error encountered", 500)]}

NoOutcome == [kind |-> "none", hasText |-> FALSE, text |-> "", err |-> NoError]

TopicTimeoutOutcome ==
  [kind |-> "reject", hasText |-> FALSE, text |-> "",
   err |-> Error("Error", "Topic extraction timeout", 0)]

AnswerTimeoutError == Error("Error", "Request timeout after 30 seconds", 0)

NoAnswerOutcome == [kind |-> "none", result |-> NoAnswerResult, err |-> NoError]

(***************************************************************************)
(* The server: one request at a time, by either endpoint.                  *)
(***************************************************************************)
NoTopicInfo == [topic |-> "", units |-> <<>>, source |-> "none"]

ServerInit ==
  /\ env \in [GEMINI_API_KEY : BOOLEAN]
  /\ genAI = FALSE
  /\ endpoint = "none"
  /\ pc = "idle"
  /\ request = NoRequest
  /\ model = "none"
  /\ answerOutcome = NoAnswerOutcome
  /\ answer = ""
  /\ topicOutcome = NoOutcome
  /\ topicInfo = NoTopicInfo
  /\ response = NoResponse
  /\ answerCall = "none"
  /\ answerTimer = "off"
  /\ topicCall = "none"
  /\ topicTimer = "off"

\* the per-request variables of a handler that has just been entered
FreshRequest(ep, req) ==
  /\ endpoint' = ep
  /\ request' = req
  /\ answerOutcome' = NoAnswerOutcome
  /\ answer' = ""
  /\ topicOutcome' = NoOutcome
  /\ topicInfo' = NoTopicInfo
  /\ topicCall' = "none"
  /\ topicTimer' = "off"

\* POST /api/generate up to the race of step 1
\* nodeEnv is process.env.NODE_ENV as the outer catch reads it
LivePOST(req, init, nodeEnv) ==
  /\ pc = "idle"
  /\ FreshRequest("live", req)
  /\ genAI' = (genAI \/ env.GEMINI_API_KEY)
  /\ LET v == LiveValidate(env, req, init) IN
     IF v.kind = "pass" THEN
       /\ model' = init
       /\ response' = NoResponse
       /\ pc' = "awaitAnswer"
       /\ answerCall' = "pending"
       /\ answerTimer' = "armed"
     ELSE
       /\ model' = "none"
       /\ response' = IF v.kind = "return" THEN v.response
                      ELSE OuterCatch(v.err, nodeEnv)
       /\ pc' = "done"
       /\ answerCall' = "none"
       /\ answerTimer' = "off"
  /\ UNCHANGED <<env, scanVars, formVars>>

\* the handler from the settling of the race of step 1 to the race of step 2
AfterAnswer(outcome) ==
  LET r == AnswerStep(outcome) IN
  /\ answerOutcome' = outcome
  /\ IF r.abort THEN
       /\ response' = r.response
       /\ pc' = "done"
       /\ UNCHANGED <<answer, topicCall, topicTimer>>
     ELSE
       /\ answer' = r.answer
       /\ pc' = "awaitTopic"
       /\ topicCall' = "pending"
       /\ topicTimer' = "armed"
       /\ UNCHANGED response
  /\ UNCHANGED <<env, genAI, endpoint, request, model, topicOutcome, topicInfo,
                 scanVars, formVars>>

AnswerResolves(result) ==
  /\ pc = "awaitAnswer"
  /\ answerCall = "pending"
  /\ answerCall' = "settled"
  /\ AfterAnswer([kind |-> "resolve", result |-> result, err |-> NoError])
  /\ UNCHANGED answerTimer

AnswerRejects(err) ==
  /\ pc = "awaitAnswer"
  /\ answerCall = "pending"
  /\ answerCall' = "settled"
  /\ AfterAnswer([kind |-> "reject", result |-> NoAnswerResult, err |-> err])
  /\ UNCHANGED answerTimer

\* the 30 s timer fires without rejecting anything: the call is awaited
\* alone
AnswerTimerUnraced ==
  /\ answerTimer = "armed"
  /\ pc = "awaitAnswer"
  /\ answerTimer' = "fired"
  /\ UNCHANGED <<env, genAI, endpoint, pc, request, model, answerOutcome, answer,
                 topicOutcome, topicInfo, response, answerCall, topicCall,
                 topicTimer, scanVars, formVars>>

\* the 30 s timer rejects the race while the call is outstanding
AnswerTimeout ==
  /\ answerTimer = "armed"
  /\ pc = "awaitAnswer"
  /\ answerTimer' = "fired"
  /\ AfterAnswer([kind |-> "reject", result |-> NoAnswerResult,
                  err |-> AnswerTimeoutError])
  /\ UNCHANGED answerCall

\* the 30 s timer fires after the race was settled: its rejection is dropped
AnswerTimerLate ==
  /\ answerTimer = "armed"
  /\ pc # "awaitAnswer"
  /\ answerTimer' = "fired"
  /\ UNCHANGED <<env, genAI, endpoint, pc, request, model, answerOutcome, answer,
                 topicOutcome, topicInfo, response, answerCall, topicCall,
                 topicTimer, scanVars, formVars>>

\* the call of step 1 settles after the timer won the race: its result is dropped
AnswerCallLate ==
  /\ answerCall = "pending"
  /\ pc # "awaitAnswer"
  /\ answerCall' = "settled"
  /\ UNCHANGED <<env, genAI, endpoint, pc, request, model, answerOutcome, answer,
                 topicOutcome, topicInfo, response, answerTimer, topicCall,
                 topicTimer, scanVars, formVars>>

\* the handler from the settling of the race of step 2 to the response
AfterTopic(outcome) ==
  LET info == ExtractTopic(request.question, outcome) IN
  /\ topicOutcome' = outcome
  /\ topicInfo' = info
  /\ response' = SuccessResponse(request, answer, info)
  /\ pc' = "done"
  /\ UNCHANGED <<env, genAI, endpoint, request, model, answerOutcome, answer,
                 answerCall, answerTimer, scanVars, formVars>>

TopicSettles(outcome) ==
  /\ pc = "awaitTopic"
  /\ topicCall = "pending"
  /\ topicCall' = "settled"
  /\ AfterTopic(outcome)
  /\ UNCHANGED topicTimer

\* the 15 s timer rejects the race while the call is outstanding
TopicTimeout ==
  /\ topicTimer = "armed"
  /\ pc = "awaitTopic"
  /\ topicTimer' = "fired"
  /\ AfterTopic(TopicTimeoutOutcome)
  /\ UNCHANGED topicCall

TopicTimerLate ==
  /\ topicTimer = "armed"
  /\ pc # "awaitTopic"
  /\ topicTimer' = "fired"
  /\ UNCHANGED <<env, genAI, endpoint, pc, request, model, answerOutcome, answer,
                 topicOutcome, topicInfo, response, answerCall, answerTimer,
                 topicCall, scanVars, formVars>>

TopicCallLate ==
  /\ topicCall = "pending"
  /\ pc # "awaitTopic"
  /\ topicCall' = "settled"
  /\ UNCHANGED <<env, genAI, endpoint, pc, request, model, answerOutcome, answer,
                 topicOutcome, topicInfo, response, answerCall, answerTimer,
                 topicTimer, scanVars, formVars>>

\* POST /api/generate-demo up to the artificial delay
DemoPOST(req) ==
  /\ pc = "idle"
  /\ FreshRequest("demo", req)
  /\ LET v == DemoValidate(req) IN
     IF v.kind = "pass" THEN
       /\ response' = NoResponse
       /\ pc' = "demoDelay"
     ELSE
       /\ response' = v.response
       /\ pc' = "done"
  /\ model' = "none"
  /\ answerCall' = "none"
  /\ answerTimer' = "off"
  /\ UNCHANGED <<env, genAI, scanVars, formVars>>

\* the 2 s delay of the demo endpoint elapses
DemoDelayElapsed ==
  /\ pc = "demoDelay"
  /\ response' = DemoResponse(request)
  /\ pc' = "done"
  /\ UNCHANGED <<env, genAI, endpoint, request, model, answerOutcome, answer,
                 topicOutcome, topicInfo, answerCall, answerTimer, topicCall,
                 topicTimer, scanVars, formVars>>

\* the handler has returned: its locals, calls and timers are gone, the
\* module-level genAI stays
ResponseSent ==
  /\ pc = "done"
  /\ pc' = "idle"
  /\ FreshRequest("none", NoRequest)
  /\ model' = "none"
  /\ response' = NoResponse
  /\ answerCall' = "none"
  /\ answerTimer' = "off"
  /\ UNCHANGED <<env, genAI, scanVars, formVars>>

ServerNext ==
  \/ \E req \in Requests, init \in {"gemini-2.0-flash", "gemini-1.5-pro", "none"},
        nodeEnv \in {"production", "development"} :
       LivePOST(req, init, nodeEnv)
  \/ \E result \in AnswerResults : AnswerResolves(result)
  \/ \E err \in AnswerErrors : AnswerRejects(err)
  \/ AnswerTimeout
  \/ AnswerTimerLate
  \/ AnswerCallLate
  \/ \E outcome \in TopicOutcomes : TopicSettles(outcome)
  \/ TopicTimeout
  \/ TopicTimerLate
  \/ TopicCallLate
  \/ \E req \in Requests : DemoPOST(req)
  \/ DemoDelayElapsed
  \/ ResponseSent

(***************************************************************************)
(* The question form of the home page.                                     *)
(***************************************************************************)
\* JSON.stringify of a parsed value; the strings of this model hold no
\* character that needs an escape
RECURSIVE JSONStringify(_)
RECURSIVE StringifyElements(_)
RECURSIVE StringifyMembers(_)
JSONStringify(v) ==
  CASE v.t = "string" -> "\"" \o v.s \o "\""
    [] v.t = "array" -> "[" \o StringifyElements(v.a) \o "]"
    [] v.t = "object" -> "{" \o StringifyMembers(v.m) \o "}"
    [] v.t = "undefined" -> "null"
    [] OTHER -> ToStr(v)

StringifyElements(a) ==
  IF a = <<>> THEN ""
  ELSE IF Len(a) = 1 THEN JSONStringify(a[1])
  ELSE JSONStringify(a[1]) \o "," \o StringifyElements(Tail(a))

StringifyMembers(m) ==
  IF m = <<>> THEN ""
  ELSE IF Len(m) = 1 THEN "\"" \o m[1].k \o "\":" \o JSONStringify(m[1].v)
  ELSE "\"" \o m[1].k \o "\":" \o JSONStringify(m[1].v) \o ","
         \o StringifyMembers(Tail(m))

\* {...o, [key]: v}: the property is replaced in place or added at the end
SetProp(o, key, v) ==
  LET m == IF o.t = "object" THEN o.m ELSE <<>> IN
  IF \E i \in 1..Len(m) : m[i].k = key
  THEN Obj([i \in 1..Len(m) |-> IF m[i].k = key THEN [k |-> key, v |-> v]
                                ELSE m[i]])
  ELSE Obj(Append(m, [k |-> key, v |-> v]))

NoImage == [kind |-> "none"]
NoPreview == [kind |-> "none"]
NoFetch == [endpoint |-> "none"]
NoToast == [title |-> ""]
NoItem == [present |-> FALSE]
NoResult == [t |-> "none"]

Toast(title, description, variant) ==
  [title |-> title, description |-> description, variant |-> variant]

\* reader.result of readAsDataURL(file); the bytes are not modelled
DataURL(file) == [kind |-> "data", type |-> file.type, of |-> file]

\* what the user can type
FormQuestions == {" \n", "What is force?"}

\* what the user can pick in the file dialog
FormFiles ==
  {[kind |-> "file", type |-> "image/png", size |-> 10 * 1024 * 1024],
   [kind |-> "file", type |-> "image/png", size |-> 10 * 1024 * 1024 + 1],
   [kind |-> "file", type |-> "application/pdf", size |-> 1],
   [kind |-> "file", type |-> "", size |-> 1]}

\* the increments Math.random() * 10 + 5 of a progress tick, in whole numbers
ProgressSteps == {7, 14}

\* what the network can answer a request with: a rejection of fetch, or a
\* response with a status and a body text
FetchOutcomes ==
  {[kind |-> "reject", status |-> 0, text |-> ""],
   [kind |-> "resolve", status |-> 200,
    text |-> "{\"success\":true,\"answer\":\"Force is mass times acceleration.\",\"visualization\":\"https://via.placeholder.com/600x400\",\"topic\":\"Physics\",\"units\":[\"Mechanics\",\"Energy\",\"Forces\"],\"metadata\":{\"imageSize\":10485760,\"imageType\":\"image/png\",\"questionLength\":14}}"],
   [kind |-> "resolve", status |-> 200,
    text |-> "{\"answer\":\"\",\"topic\":\"Physics\",\"units\":[\"Mechanics\"]}"],
   [kind |-> "resolve", status |-> 200,
    text |-> "{\"answer\":\"Force is a push or a pull.\",\"units\":[]}"],
   [kind |-> "resolve", status |-> 200, text |-> "null"],
   [kind |-> "resolve", status |-> 400,
    text |-> "{\"error\":\"Question must be at least 3 characters long.\"}"],
   [kind |-> "resolve", status |-> 404, text |-> "<!DOCTYPE html>"],
   [kind |-> "resolve", status |-> 404, text |-> "{}"],
   [kind |-> "resolve", status |-> 429,
    text |-> "{\"error\":\"API usage limit exceeded. Please try again later.\"}"]}

\* the settled fetches with json, what response.json() makes of the body text
SettledFetches ==
  {[kind |-> o.kind, status |-> o.status, text |-> o.text,
    json |-> JSONParse(o.text)] : o \in FetchOutcomes}

FormInit ==
  /\ question = ""
  /\ image = NoImage
  /\ imagePreview = NoPreview
  /\ isLoading = FALSE
  /\ progress = 0
  /\ isDemoMode = TRUE
  /\ isClient = FALSE
  /\ readers = {}
  /\ progressInterval = FALSE
  /\ fetchCall = NoFetch
  /\ toasts = NoToast
  /\ localStorage = NoItem
  /\ navTimer = FALSE
  /\ pathname = "/"
  /\ orphans = {}
  /\ parsedResult = NoResult
  /\ resultsLoading = FALSE

\* the form is shown and its mount effect has run: React runs the effect
\* before it handles an event of the user
Mounted == pathname = "/" /\ isClient

\* the controls of the form are disabled while isLoading
ControlsEnabled == Mounted /\ ~isLoading

\* useEffect(() => setIsClient(true), [])
MountEffect ==
  /\ pathname = "/"
  /\ ~isClient
  /\ isClient' = TRUE
  /\ UNCHANGED <<question, image, imagePreview, isLoading, progress, isDemoMode,
                 readers, progressInterval, fetchCall, toasts, localStorage,
                 navTimer, pathname, serverVars, scanVars, pageVars>>

\* onChange of the textarea
setQuestion(value) ==
  /\ ControlsEnabled
  /\ question' = value
  /\ UNCHANGED <<image, imagePreview, isLoading, progress, isDemoMode, isClient,
                 readers, progressInterval, fetchCall, toasts, localStorage,
                 navTimer, pathname, serverVars, scanVars, pageVars>>

\* onChange of the demo-mode checkbox
setIsDemoMode(checked) ==
  /\ ControlsEnabled
  /\ isDemoMode' = checked
  /\ UNCHANGED <<question, image, imagePreview, isLoading, progress, isClient,
                 readers, progressInterval, fetchCall, toasts, localStorage,
                 navTimer, pathname, serverVars, scanVars, pageVars>>

\* handleImageChange without its size check
ImageRejectionTypeOnly(file) ==
  IF ~startsWith(file.type, "image/")
  THEN Toast("Invalid file type", "Please select a valid image file",
             "destructive")
  ELSE NoToast

\* the checks of handleImageChange: the toast that rejects the file, or
\* NoToast when the file is taken
ImageRejection(file) ==
  IF file.size > 10 * 1024 * 1024
  THEN Toast("File too large", "Please select an image smaller than 10MB",
             "destructive")
  ELSE IF ~startsWith(file.type, "image/")
  THEN Toast("Invalid file type", "Please select a valid image file",
             "destructive")
  ELSE NoToast


\* onChange of the file input; hasFile is FALSE when the dialog was cancelled
handleImageChange(hasFile, file) ==
  /\ ControlsEnabled
  /\ IF ~hasFile THEN UNCHANGED <<image, readers, toasts>>
     ELSE IF ImageRejection(file) # NoToast
     THEN /\ toasts' = ImageRejection(file)
          /\ UNCHANGED <<image, readers>>
     ELSE /\ image' = file
          /\ readers' = readers \cup {file}
          /\ UNCHANGED toasts
  /\ UNCHANGED <<question, imagePreview, isLoading, progress, isDemoMode,
                 isClient, progressInterval, fetchCall, localStorage, navTimer,
                 pathname, serverVars, scanVars, pageVars>>

\* a FileReader finishes: onerror when the read failed, then onloadend
ReaderLoadEnd(file, failed) ==
  /\ file \in readers
  /\ readers' = readers \ {file}
  /\ IF failed
     THEN /\ toasts' = Toast("Error reading file",
                             "Failed to read the selected image", "destructive")
          /\ imagePreview' = NoPreview
     ELSE /\ imagePreview' = DataURL(file)
          /\ UNCHANGED toasts
  /\ UNCHANGED <<question, image, isLoading, progress, isDemoMode, isClient,
                 progressInterval, fetchCall, localStorage, navTimer, pathname,
                 serverVars, scanVars, pageVars>>

\* onClick of the Remove button, which is shown with the preview
removeImage ==
  /\ ControlsEnabled
  /\ imagePreview # NoPreview
  /\ image' = NoImage
  /\ imagePreview' = NoPreview
  /\ UNCHANGED <<question, isLoading, progress, isDemoMode, isClient, readers,
                 progressInterval, fetchCall, toasts, localStorage, navTimer,
                 pathname, serverVars, scanVars, pageVars>>

\* onSubmit of a form whose button is not disabled while isLoading
handleSubmitUnguarded ==
  /\ Mounted
  /\ IF trim(question) = ""
     THEN /\ toasts' = Toast("Question required",
                             "Please enter a question to continue", "destructive")
          /\ UNCHANGED <<isLoading, progress, progressInterval, fetchCall>>
     ELSE IF image = NoImage
     THEN /\ toasts' = Toast("Image required",
                             "Please upload an image containing units and topic name",
                             "destructive")
          /\ UNCHANGED <<isLoading, progress, progressInterval, fetchCall>>
     ELSE /\ isLoading' = TRUE
          \* simulateProgress
          /\ progress' = 0
          /\ progressInterval' = TRUE
          /\ fetchCall' = [endpoint |-> IF isDemoMode THEN "/api/generate-demo"
                                        ELSE "/api/generate",
                           question |-> question,
                           image |-> image]
          /\ UNCHANGED toasts
  /\ UNCHANGED <<question, image, imagePreview, isDemoMode, isClient, readers,
                 localStorage, navTimer, pathname, serverVars, scanVars, pageVars>>

\* onSubmit of the form, up to the await of fetch
handleSubmit ==
  /\ ControlsEnabled
  /\ IF trim(question) = ""
     THEN /\ toasts' = Toast("Question required",
                             "Please enter a question to continue", "destructive")
          /\ UNCHANGED <<isLoading, progress, progressInterval, fetchCall>>
     ELSE IF image = NoImage
     THEN /\ toasts' = Toast("Image required",
                             "Please upload an image containing units and topic name",
                             "destructive")
          /\ UNCHANGED <<isLoading, progress, progressInterval, fetchCall>>
     ELSE /\ isLoading' = TRUE
          \* simulateProgress
          /\ progress' = 0
          /\ progressInterval' = TRUE
          /\ fetchCall' = [endpoint |-> IF isDemoMode THEN "/api/generate-demo"
                                        ELSE "/api/generate",
                           question |-> question,
                           image |-> image]
          /\ UNCHANGED toasts
  /\ UNCHANGED <<question, image, imagePreview, isDemoMode, isClient, readers,
                 localStorage, navTimer, pathname, serverVars, scanVars, pageVars>>

\* a tick of the interval of simulateProgress
ProgressTick(step) ==
  /\ progressInterval
  /\ IF progress >= 95
     THEN progressInterval' = FALSE /\ UNCHANGED progress
     ELSE progress' = progress + step /\ UNCHANGED progressInterval
  /\ UNCHANGED <<question, image, imagePreview, isLoading, isDemoMode, isClient,
                 readers, fetchCall, toasts, localStorage, navTimer, pathname,
                 serverVars, scanVars, pageVars>>

\* new Error(message)
ClientError(message) == [thrown |-> TRUE, message |-> message]
NoClientError == [thrown |-> FALSE, message |-> ""]

\* the checks of handleSubmit on the parsed body data of a response: the
\* error they throw, or NoClientError
CheckResponse(status, data) ==
  IF status \notin 200..299 THEN
    IF data.t = "null"
    THEN ClientError("Cannot read properties of null (reading 'error')")
    ELSE IF Truthy(Get(data, "error")) THEN ClientError(ToStr(Get(data, "error")))
    ELSE ClientError("HTTP error! status: " \o NatToString(status))
  ELSE IF data.t = "null"
  THEN ClientError("Cannot read properties of null (reading 'answer')")
  ELSE IF ~Truthy(Get(data, "answer")) \/ ~Truthy(Get(data, "topic"))
  THEN ClientError("Invalid response format from server")
  ELSE NoClientError

\* the try block of handleSubmit from the settling of fetch on, r being
\* the parse of the body text: the error thrown, or NoClientError
SubmitError(outcome, r) ==
  IF outcome.kind = "reject" THEN ClientError("Failed to fetch")
  ELSE IF ~r.ok THEN ClientError("Unexpected token in JSON at position 0")
  ELSE CheckResponse(outcome.status, r.val)

\* the message the catch block of handleSubmit shows
errorMessage(error) ==
  IF includes(error.message, "404")
  THEN "API endpoint not found. Please check your configuration."
  ELSE IF includes(error.message, "401")
  THEN "API key is invalid or missing. Please check your Gemini API key."
  ELSE IF includes(error.message, "403")
  THEN "API access denied. Please check your API key permissions."
  ELSE IF includes(error.message, "429")
  THEN "Rate limit exceeded. Please try again in a few moments."
  ELSE error.message

\* SubmitError and errorMessage for every settled fetch, computed once
SubmitErrors == [o \in SettledFetches |-> SubmitError(o, o.json)]

ErrorMessages == [o \in SettledFetches |-> errorMessage(SubmitErrors[o])]

\* whether localStorage.setItem can throw: it is called only when the try
\* block has thrown nothing before
StorageFailures(outcome) ==
  IF SubmitErrors[outcome].thrown THEN {FALSE} ELSE BOOLEAN

\* the body stored as one property beside the two added ones
resultDataNested(data, originalQuestion) ==
  JSONStringify(Obj(<<[k |-> "data", v |-> data],
                      [k |-> "originalQuestion", v |-> Str(originalQuestion)],
                      [k |-> "timestamp", v |-> Str(Timestamp)]>>))

\* JSON.stringify(resultData) for the parsed body data
resultData(data, originalQuestion) ==
  JSONStringify(SetProp(SetProp(data, "originalQuestion", Str(originalQuestion)),
                        "timestamp", Str(Timestamp)))

\* the rest of handleSubmit without clearInterval in its finally block
SubmitSettlesKeepsTimer(r, error, message, storageFails) ==
  /\ fetchCall' = NoFetch
  /\ IF error.thrown
     THEN /\ toasts' = Toast("Error", message, "destructive")
          /\ progress' = 0
          /\ UNCHANGED <<localStorage, navTimer>>
     ELSE /\ localStorage' =
               IF storageFails THEN localStorage
               ELSE [present |-> TRUE,
                     value |-> resultData(r.val, fetchCall.question)]
          /\ progress' = 100
          /\ toasts' = Toast("Success!", "Answer generated successfully", "default")
          /\ navTimer' = TRUE
  /\ UNCHANGED progressInterval
  /\ isLoading' = FALSE
  /\ UNCHANGED <<question, image, imagePreview, isDemoMode, isClient, readers,
                 pathname, serverVars, scanVars, pageVars>>

\* the rest of handleSubmit with the storage write outside its own try
\* block: a failing write is caught by the catch block of handleSubmit
SubmitSettlesStorageThrows(r, error, message, storageFails) ==
  /\ fetchCall' = NoFetch
  /\ IF error.thrown \/ storageFails
     THEN /\ toasts' = Toast("Error",
                             IF error.thrown THEN message
                             ELSE "The quota has been exceeded.", "destructive")
          /\ progress' = 0
          /\ UNCHANGED <<localStorage, navTimer>>
     ELSE /\ localStorage' =
               [present |-> TRUE,
                value |-> resultData(r.val, fetchCall.question)]
          /\ progress' = 100
          /\ toasts' = Toast("Success!", "Answer generated successfully", "default")
          /\ navTimer' = TRUE
  /\ progressInterval' = FALSE
  /\ isLoading' = FALSE
  /\ UNCHANGED <<question, image, imagePreview, isDemoMode, isClient, readers,
                 pathname, serverVars, scanVars, pageVars>>

\* the rest of handleSubmit without setProgress(0) in its catch block
SubmitSettlesKeepsProgress(r, error, message, storageFails) ==
  /\ fetchCall' = NoFetch
  /\ IF error.thrown
     THEN /\ toasts' = Toast("Error", message, "destructive")
          /\ UNCHANGED <<progress, localStorage, navTimer>>
     ELSE /\ localStorage' =
               IF storageFails THEN localStorage
               ELSE [present |-> TRUE,
                     value |-> resultData(r.val, fetchCall.question)]
          /\ progress' = 100
          /\ toasts' = Toast("Success!", "Answer generated successfully", "default")
          /\ navTimer' = TRUE
  \* finally
  /\ progressInterval' = FALSE
  /\ isLoading' = FALSE
  /\ UNCHANGED <<question, image, imagePreview, isDemoMode, isClient, readers,
                 pathname, serverVars, scanVars, pageVars>>

\* the rest of handleSubmit once error tells how its try block ended
SubmitSettles(r, error, message, storageFails) ==
  /\ fetchCall' = NoFetch
  /\ IF error.thrown
     THEN /\ toasts' = Toast("Error", message, "destructive")
          /\ progress' = 0
          /\ UNCHANGED <<localStorage, navTimer>>
     ELSE /\ localStorage' =
               IF storageFails THEN localStorage
               ELSE [present |-> TRUE,
                     value |-> resultData(r.val, fetchCall.question)]
          /\ progress' = 100
          /\ toasts' = Toast("Success!", "Answer generated successfully", "default")
          /\ navTimer' = TRUE
  \* finally
  /\ progressInterval' = FALSE
  /\ isLoading' = FALSE
  /\ UNCHANGED <<question, image, imagePreview, isDemoMode, isClient, readers,
                 pathname, serverVars, scanVars, pageVars>>

\* after response.json(), r being the parse of the body text
BodyRead(outcome, r, storageFails) ==
  SubmitSettles(r, SubmitErrors[outcome], ErrorMessages[outcome], storageFails)

\* fetch settles and the body of the response is read
FetchSettles(outcome, storageFails) ==
  /\ fetchCall # NoFetch
  /\ BodyRead(outcome, outcome.json, storageFails)

\* the rest of handleSubmit for the request req of a form that is gone: the
\* setters of its state do nothing
OrphanSettled(req, r, error, message, storageFails) ==
  /\ orphans' = orphans \ {req}
  /\ IF error.thrown
     THEN /\ toasts' = Toast("Error", message, "destructive")
          /\ UNCHANGED <<localStorage, navTimer>>
     ELSE /\ localStorage' =
               IF storageFails THEN localStorage
               ELSE [present |-> TRUE, value |-> resultData(r.val, req.question)]
          /\ toasts' = Toast("Success!", "Answer generated successfully", "default")
          /\ navTimer' = TRUE
  /\ UNCHANGED <<question, image, imagePreview, isLoading, progress, isDemoMode,
                 isClient, readers, progressInterval, fetchCall, pathname,
                 parsedResult, resultsLoading, serverVars, scanVars, displayVars>>

OrphanBodyRead(req, outcome, r, storageFails) ==
  OrphanSettled(req, r, SubmitErrors[outcome], ErrorMessages[outcome],
                storageFails)

\* fetch settles for a form that is gone
OrphanSettles(req, outcome, storageFails) ==
  /\ req \in orphans
  /\ OrphanBodyRead(req, outcome, outcome.json, storageFails)

\* the form is taken off the page: its state is dropped, the callbacks of its
\* readers and of its interval set the state of no form, and its request
\* stays in flight
UnmountForm ==
  /\ orphans' = IF fetchCall = NoFetch THEN orphans ELSE orphans \cup {fetchCall}
  /\ question' = ""
  /\ image' = NoImage
  /\ imagePreview' = NoPreview
  /\ isLoading' = FALSE
  /\ progress' = 0
  /\ isDemoMode' = TRUE
  /\ isClient' = FALSE
  /\ readers' = {}
  /\ progressInterval' = FALSE
  /\ fetchCall' = NoFetch

\* the timeout set after a success: router.push("/results"), which changes
\* nothing when the results page is shown already
Navigate ==
  /\ navTimer
  /\ navTimer' = FALSE
  /\ IF pathname = "/"
     THEN /\ UnmountForm
          /\ pathname' = "/results"
          /\ parsedResult' = NoResult
          /\ resultsLoading' = TRUE
     ELSE UNCHANGED <<question, image, imagePreview, isLoading, progress,
                      isDemoMode, isClient, readers, progressInterval, fetchCall,
                      pathname, orphans, parsedResult, resultsLoading>>
  /\ UNCHANGED <<toasts, localStorage, serverVars, scanVars, displayVars>>

\* after JSON.parse(storedResult), r being the parse; router.push("/") shows
\* a new form
ResultsParsed(r) ==
  IF r.ok
  THEN /\ parsedResult' = r.val
       /\ UNCHANGED <<toasts, pathname>>
  ELSE /\ toasts' = Toast("Error", "Failed to load results. Please try again.",
                          "destructive")
       /\ pathname' = "/"
       /\ UNCHANGED parsedResult

\* the effect of the results page
ResultsEffect ==
  /\ pathname = "/results"
  /\ resultsLoading
  /\ resultsLoading' = FALSE
  /\ IF localStorage.present
     THEN ResultsParsed(JSONParse(localStorage.value))
     ELSE /\ toasts' = Toast("No Results",
                             "No results found. Please submit a question first.",
                             "destructive")
          /\ pathname' = "/"
          /\ UNCHANGED parsedResult
  /\ UNCHANGED <<question, image, imagePreview, isLoading, progress, isDemoMode,
                 isClient, readers, progressInterval, fetchCall, localStorage,
                 navTimer, orphans, serverVars, scanVars, displayVars>>

(***************************************************************************)
(* The result renderer: the lines of the answer panel and the panels.      *)
(***************************************************************************)
\* the character U+2022, which a string of this module cannot hold
BulletChar == "@"

\* line.startsWith("#") || (line === line.toUpperCase() && line.length < 50
\* && line.length > 5)
isHeader(line) ==
  \/ startsWith(line, "#")
  \/ line = toUpperCase(line) /\ Len(line) < 50 /\ Len(line) > 5

\* line.match(/^[-\u2022*]\s/) || line.match(/^\d+\.\s/)
isBulletPoint(line) ==
  \/ CharAt(line, 1) \in {"-", BulletChar, "*"} /\ CharAt(line, 2) \in WhiteSpace
  \/ LET d == FirstIn(line, 1, Len(line), DigitChars, FALSE) IN
       d > 1 /\ CharAt(line, d) = "." /\ CharAt(line, d + 1) \in WhiteSpace

\* line.includes("**") || line.includes("*")
hasKeyTerms(line) == includes(line, "**") \/ includes(line, "*")

\* s from the first character at or after i that is no white space
SkipWhiteSpace(s, i) ==
  LET j == FirstIn(s, i, Len(s), WhiteSpace, FALSE) IN
  IF j = 0 THEN "" ELSE SubSeq(s, j, Len(s))

\* line.replace(/^#+\s*/, "")
StripHeader(line) ==
  LET j == FirstIn(line, 1, Len(line), {"#"}, FALSE) IN
  IF CharAt(line, 1) # "#" THEN line
  ELSE IF j = 0 THEN "" ELSE SkipWhiteSpace(line, j)

\* line.replace(/^[-\u2022*]\s*|\d+\.\s*/, "") on a line that is a bullet point
StripBullet(line) ==
  IF CharAt(line, 1) \in {"-", BulletChar, "*"} THEN SkipWhiteSpace(line, 2)
  ELSE SkipWhiteSpace(line, FirstIn(line, 1, Len(line), DigitChars, FALSE) + 1)

\* the last position of the match of /\*\*.*?\*\*|\*.*?\*/ that starts at
\* position i of line, or 0: the first alternative is tried first, and each
\* lazy .*? stops at the first closing delimiter
MatchEnd(line, i) ==
  IF startsWith(SubSeq(line, i, Len(line)), "**") /\ indexOf(line, "**", i + 2) # 0
  THEN indexOf(line, "**", i + 2) + 1
  ELSE IF CharAt(line, i) = "*" /\ indexOf(line, "*", i + 1) # 0
  THEN indexOf(line, "*", i + 1)
  ELSE 0

\* line.split(/(\*\*.*?\*\*|\*.*?\*)/) from position p on: the texts between
\* the matches and the matches themselves
RECURSIVE SplitFrom(_, _)
SplitFrom(line, p) ==
  LET i == indexOf(line, "*", p)
      e == IF i = 0 THEN 0 ELSE MatchEnd(line, i)
  IN IF e = 0 THEN <<SubSeq(line, p, Len(line))>>
     ELSE <<SubSeq(line, p, i - 1), SubSeq(line, i, e)>> \o SplitFrom(line, e + 1)

\* an element of the rendered line
Node(tag, text) == [tag |-> tag, text |-> text]

\* the callback of parts.map
RenderPart(part) ==
  IF startsWith(part, "**") /\ endsWith(part, "**")
  THEN Node("strong", slice(part, 2, 2))
  ELSE IF startsWith(part, "*") /\ endsWith(part, "*")
  THEN Node("em", slice(part, 1, 1))
  ELSE Node("text", part)

RenderParts(parts) == [k \in 1..Len(parts) |-> RenderPart(parts[k])]

\* the callback of paragraph.split("\n").map: the element of a line and its
\* children
RenderLine(line) ==
  IF isHeader(line)
  THEN [tag |-> "h4", children |-> <<Node("text", StripHeader(line))>>]
  ELSE IF isBulletPoint(line)
  THEN [tag |-> "bullet", children |-> <<Node("text", StripBullet(line))>>]
  ELSE IF hasKeyTerms(line)
  THEN [tag |-> "p", children |-> RenderParts(SplitFrom(line, 1))]
  ELSE IF trim(line) # ""
  THEN [tag |-> "p", children |-> <<Node("text", line)>>]
  ELSE [tag |-> "null", children |-> <<>>]

NotRendered == [tag |-> "none", children |-> <<>>]

\* the lines of at most n characters over the alphabet C
RECURSIVE LinesOver(_, _)
LinesOver(C, n) ==
  IF n = 0 THEN {""}
  ELSE LET S == LinesOver(C, n - 1) IN
       S \cup {t \o c : t \in {u \in S : Len(u) = n - 1}, c \in C}

AnswerLines ==
  LinesOver({"a", "*", " "}, MaxLine)
  \cup {"# Force *and* mass", "NEWTON'S *SECOND* LAW", "- **Force** is a push",
        "1. *mass* times acceleration", "The **net force is zero.",
        "F = m * a", "   "}

\* the ids of panels, in the order of the array
panels == <<"answer", "visualization", "summary", "insights">>

\* panels.findIndex((panel) => panel.id === activePanel), counted from 0
currentPanelIndex(active) ==
  IF \E k \in 1..Len(panels) : panels[k] = active
  THEN (CHOOSE k \in 1..Len(panels) : panels[k] = active) - 1
  ELSE -1

\* navigatePanel moving back by (index - 1) % panels.length, the remainder
\* of JavaScript keeping the sign of index - 1
newIndexSigned(direction, index) ==
  IF direction = "prev" THEN (IF index = 0 THEN -1 ELSE index - 1)
  ELSE (index + 1) % Len(panels)

\* the index navigatePanel computes
newIndex(direction, index) ==
  IF direction = "prev" THEN (index - 1 + Len(panels)) % Len(panels)
  ELSE (index + 1) % Len(panels)

\* panels[index].id, undefined outside the array
PanelId(index) ==
  IF index \in 0..(Len(panels) - 1) THEN panels[index + 1] ELSE "undefined"

DisplayIdle ==
  /\ answerLine = ""
  /\ rendered = NotRendered
  /\ activePanel = "answer"
  /\ isExpanded = FALSE
  /\ showAllPanels = FALSE

\* AnswerDisplay has been constructed for a Result
DisplayInit ==
  /\ answerLine \in AnswerLines
  /\ rendered = NotRendered
  /\ activePanel = "answer"
  /\ isExpanded = FALSE
  /\ showAllPanels = FALSE

\* the state outside the result renderer
outsideDisplay ==
  <<scanVars, serverVars, question, image, imagePreview, isLoading, progress,
    isDemoMode, isClient, readers, progressInterval, fetchCall, toasts,
    localStorage, navTimer, pathname, orphans, parsedResult, resultsLoading>>

\* the answer panel is shown: its content is rendered
RenderAnswer ==
  /\ rendered = NotRendered
  /\ showAllPanels \/ activePanel = "answer"
  /\ rendered' = RenderLine(answerLine)
  /\ UNCHANGED <<answerLine, activePanel, isExpanded, showAllPanels, outsideDisplay>>

\* the buttons prev and next of the single view
navigatePanel(direction) ==
  /\ ~showAllPanels
  /\ activePanel' = PanelId(newIndex(direction, currentPanelIndex(activePanel)))
  /\ UNCHANGED <<answerLine, rendered, isExpanded, showAllPanels, outsideDisplay>>

\* the panel buttons and the indicators of the single view
setActivePanel(id) ==
  /\ ~showAllPanels
  /\ activePanel' = id
  /\ UNCHANGED <<answerLine, rendered, isExpanded, showAllPanels, outsideDisplay>>

\* onClick={() => setIsExpanded(!isExpanded)}
ToggleExpanded ==
  /\ isExpanded' = ~isExpanded
  /\ UNCHANGED <<answerLine, rendered, activePanel, showAllPanels, outsideDisplay>>

\* onClick={() => setShowAllPanels(!showAllPanels)}
ToggleShowAll ==
  /\ showAllPanels' = ~showAllPanels
  /\ UNCHANGED <<answerLine, rendered, activePanel, isExpanded, outsideDisplay>>

DisplayNext ==
  \/ RenderAnswer
  \/ \E direction \in {"prev", "next"} : navigatePanel(direction)
  \/ \E k \in 1..Len(panels) : setActivePanel(panels[k])
  \/ ToggleExpanded
  \/ ToggleShowAll

FormNext ==
  \/ MountEffect
  \/ \E value \in FormQuestions : setQuestion(value)
  \/ \E checked \in BOOLEAN : setIsDemoMode(checked)
  \/ \E file \in FormFiles : handleImageChange(TRUE, file)
  \/ handleImageChange(FALSE, NoImage)
  \/ \E file \in FormFiles, failed \in BOOLEAN : ReaderLoadEnd(file, failed)
  \/ removeImage
  \/ handleSubmit
  \/ \E step \in ProgressSteps : ProgressTick(step)
  \/ \E outcome \in SettledFetches :
       \E storageFails \in StorageFailures(outcome) :
         FetchSettles(outcome, storageFails)
  \/ \E req \in orphans, outcome \in SettledFetches :
       \E storageFails \in StorageFailures(outcome) :
         OrphanSettles(req, outcome, storageFails)
  \/ Navigate
  \/ ResultsEffect

vars == <<scanVars, serverVars, formVars>>

\* the scans run with the server idle
ScanIdleServer ==
  /\ env = [GEMINI_API_KEY |-> FALSE]
  /\ genAI = FALSE
  /\ endpoint = "none"
  /\ pc = "idle"
  /\ request = NoRequest
  /\ model = "none"
  /\ answerOutcome = NoAnswerOutcome
  /\ answer = ""
  /\ topicOutcome = NoOutcome
  /\ topicInfo = NoTopicInfo
  /\ response = NoResponse
  /\ answerCall = "none"
  /\ answerTimer = "off"
  /\ topicCall = "none"
  /\ topicTimer = "off"

ScanNext == RunDemoScan \/ RunFallbackScan

InitScan == ScanInit /\ ScanIdleServer /\ FormInit /\ DisplayIdle

SpecScan == InitScan /\ [][ScanNext]_vars

\* the server runs with no scan under way
ServerIdleScan ==
  /\ scanQuestion = ""
  /\ scanDemo = NoScan
  /\ scanFallback = NoScan
  /\ scanDone = {}

Init == ServerInit /\ ServerIdleScan /\ FormInit /\ DisplayIdle

Next == ServerNext

Spec == Init /\ [][Next]_vars

\* the callback of a timer runs while its race is unsettled: among the
\* steps of Next these are the steps of AnswerTimeout and of TopicTimeout
AnswerTimerFires ==
  answerTimer = "armed" /\ pc = "awaitAnswer" /\ answerTimer' = "fired"

TopicTimerFires ==
  topicTimer = "armed" /\ pc = "awaitTopic" /\ topicTimer' = "fired"

\* the server with its timers: setTimeout callbacks run once their delay has
\* passed, whereas the external model need never answer
SpecLive ==
  Init /\ [][Next]_vars
  /\ WF_answerTimer(AnswerTimerFires) /\ WF_topicTimer(TopicTimerFires)

\* the form alone, with the network answering its requests
InitForm == FormInit /\ ScanIdleServer /\ ServerIdleScan /\ DisplayIdle

SpecForm == InitForm /\ [][FormNext]_vars

\* the result renderer alone, constructed for a Result
InitDisplay == DisplayInit /\ FormInit /\ ScanIdleServer /\ ServerIdleScan

SpecDisplay == InitDisplay /\ [][DisplayNext]_vars

(***************************************************************************)
(* Properties of the two keyword scans (specification SpecScan).           *)
(***************************************************************************)
\* C1: for every question the demo endpoint's keyword scan and the live
\* endpoint's fallback scan give the same topic.
ScansAgree ==
  scanDone = {"demo", "fallback"} => scanDemo.topic = scanFallback.topic

\* whether the lower-cased question under scan contains one of the keywords
ScanHas(keywords) ==
  \E k \in keywords : includes(toLowerCase(scanQuestion), k)

\* C2: the demo endpoint picks the topic by the first category, in the order
\* mathematics, physics, chemistry, biology, of which the lower-cased
\* question contains a keyword, and "General Knowledge" when it contains
\* none; every topic comes with its own fixed unit list.
DemoScanOrdered ==
  "demo" \in scanDone =>
    LET math == ScanHas({"math", "algebra", "equation"})
        physics == ScanHas({"physics", "force", "energy"})
        chemistry == ScanHas({"chemistry", "reaction", "element"})
        biology == ScanHas({"biology", "cell", "organism"})
    IN /\ math =>
            scanDemo = [topic |-> "Mathematics",
                        units |-> <<"Algebra", "Equations", "Problem Solving">>]
       /\ ~math /\ physics =>
            scanDemo = [topic |-> "Physics",
                        units |-> <<"Mechanics", "Energy", "Forces">>]
       /\ ~math /\ ~physics /\ chemistry =>
            scanDemo = [topic |-> "Chemistry",
                        units |-> <<"Elements", "Reactions", "Compounds">>]
       /\ ~math /\ ~physics /\ ~chemistry /\ biology =>
            scanDemo = [topic |-> "Biology",
                        units |-> <<"Cell Biology", "Organisms", "Life Processes">>]
       /\ ~math /\ ~physics /\ ~chemistry /\ ~biology =>
            scanDemo = [topic |-> "General Knowledge",
                        units |-> <<"Fundamentals", "Concepts", "Applications">>]

\* C2 witness: an upper-case physics keyword followed by a mathematics
\* keyword has been scanned as Mathematics
DemoScanOrderedWitness ==
  /\ "demo" \in scanDone
  /\ scanQuestion = "Forcemath"
  /\ scanDemo.topic = "Mathematics"

(***************************************************************************)
(* Properties of the endpoints (specification Spec).                       *)
(***************************************************************************)
LiveDone == endpoint = "live" /\ pc = "done"

\* C4: every response of the live endpoint is either 200 with the success
\* body or a non-200 response whose body carries success: false, error,
\* code and timestamp.
LiveEnvelope ==
  LiveDone =>
    \/ /\ response.status = 200
       /\ DOMAIN response.body
            = {"success", "answer", "visualization", "topic", "units", "metadata"}
       /\ response.body.success = TRUE
    \/ /\ response.status # 200
       /\ {"success", "error", "code", "timestamp"} \subseteq DOMAIN response.body
       /\ response.body.success = FALSE

\* C5: with the credential configured and a readable body, a question of
\* fewer than 3 characters after trimming is answered with 400 whatever the
\* image is.
ShortQuestion400 ==
  (LiveDone /\ env.GEMINI_API_KEY /\ ~request.malformed
     /\ Len(trim(request.question)) < 3)
    => response.status = 400

\* C5 witness: a two-character question with an oversize image that is no
\* image has been answered with 400
ShortQuestion400Witness ==
  /\ LiveDone
  /\ env.GEMINI_API_KEY
  /\ request.question = " ab\n"
  /\ request.image = [kind |-> "file", type |-> "application/pdf",
                      size |-> 10 * 1024 * 1024 + 1]
  /\ response.status = 400

\* a live request that is valid but for the size of its image
ValidButSize ==
  /\ endpoint = "live"
  /\ env.GEMINI_API_KEY
  /\ ~request.malformed
  /\ Len(trim(request.question)) >= 3
  /\ request.image.kind = "file"
  /\ startsWith(request.image.type, "image/")

\* C6: an otherwise valid request with an image of exactly 10 MiB passes the
\* size check (the handler goes on to obtain the model and call it), and
\* one of 10 MiB + 1 byte is answered with 413.
SizeBoundary ==
  ValidButSize =>
    /\ request.image.size = 10 * 1024 * 1024 =>
         \/ answerCall # "none"
         \/ pc = "done" /\ response.status = 503 /\ model = "none"
    /\ request.image.size = 10 * 1024 * 1024 + 1 =>
         pc = "done" /\ response.status = 413 /\ answerCall = "none"

\* C6 witness: a request with an image of exactly 10 MiB has reached the
\* answer call
SizeBoundaryWitness ==
  /\ ValidButSize
  /\ request.image.size = 10 * 1024 * 1024
  /\ pc = "awaitAnswer"
  /\ answerCall = "pending"

\* C7: every 200 response of either endpoint has a non-empty topic, a
\* non-empty units sequence and a non-empty answer.
ResultNonEmpty ==
  (pc = "done" /\ response.status = 200) =>
    /\ response.body.topic # ""
    /\ Len(response.body.units) > 0
    /\ response.body.answer # ""

\* C7 witness: a live 200 response after a swallowed answer failure and a
\* rejected topic extraction
ResultNonEmptyWitness ==
  /\ LiveDone
  /\ response.status = 200
  /\ answerOutcome.kind = "reject"
  /\ topicInfo.source = "fallback"
  /\ response.body.answer = GenericAnswer

\* C8 as claimed: the units of every Result have between 3 and 6 elements.
UnitsThreeToSix ==
  (pc = "done" /\ response.status = 200) =>
    Len(response.body.units) \in 3..6

\* C8 as amended: the units of every Result have between 1 and 6 elements;
\* the demo endpoint gives 3 and the live endpoint's keyword fallback 4.
UnitsOneToSix ==
  (pc = "done" /\ response.status = 200) =>
    /\ Len(response.body.units) \in 1..6
    /\ endpoint = "demo" => Len(response.body.units) = 3
    /\ (endpoint = "live" /\ topicInfo.source = "fallback") =>
         Len(response.body.units) = 4

\* C8 witness: a live 200 response with the single unit the model listed
UnitsOneToSixWitness ==
  /\ LiveDone
  /\ response.status = 200
  /\ topicOutcome.text = "{\"topic\":\"Physics\",\"units\":[\"Optics\"]}"
  /\ response.body.units = <<"Optics">>

\* the string the k-th element of the model's units array is coerced to
UnitString(i) ==
  IF i % 3 = 0 THEN NatToString(i) ELSE "Unit " \o NatToString(i)

\* the texts that carry topic Physics and the k-element units array
PhysicsTexts(k) ==
  {ObjectText("\"topic\":\"Physics\"", "\"units\":" \o UnitsArrayText(k, ""), "")}
  \cup UNION {{Fenced(ObjectText("\"topic\":\"Physics\"",
                                 "\"units\":" \o UnitsArrayText(k, sp), sp)),
               "Here is the JSON:\n"
                 \o Fenced(ObjectText("\"topic\":\"Physics\"",
                                      "\"units\":" \o UnitsArrayText(k, sp), sp))
                 \o "\nHope this helps!"}
              : sp \in {"", "\n  "}}

\* C9: the units of every live 200 response are at most 6; when the model
\* lists k units they are the first 6 of them in the model's order, each
\* coerced to a string.
UnitsTruncated ==
  (LiveDone /\ response.status = 200) =>
    /\ Len(response.body.units) <= 6
    /\ \A k \in 1..MaxUnits :
         (topicOutcome.kind = "resolve" /\ topicOutcome.text \in PhysicsTexts(k)) =>
           response.body.units
             = [i \in 1..(IF k < 6 THEN k ELSE 6) |-> UnitString(i)]
    /\ (topicOutcome.kind = "resolve"
          /\ topicOutcome.text
               = "{\"topic\":\"Physics\",\"units\":[null,true,{\"name\":\"Optics\"},[1,2]]}") =>
         response.body.units = <<"null", "true", "[object Object]", "1,2">>

\* C9 witness: the model listed more than 6 units and 6 were returned
UnitsTruncatedWitness ==
  /\ LiveDone
  /\ response.status = 200
  /\ MaxUnits > 6
  /\ topicOutcome.text \in PhysicsTexts(MaxUnits)
  /\ Len(response.body.units) = 6

\* the topic call threw, timed out, or answered with a text the extraction
\* rejects: no text, an empty text, a text that is no JSON, a JSON value
\* that is no object, an object without a non-empty string topic or
\* without a non-empty units array
TopicRejected ==
  \/ topicOutcome.kind = "reject"
  \/ /\ topicOutcome.kind = "resolve"
     /\ \/ ~topicOutcome.hasText
        \/ topicOutcome.text \in JunkTexts
        \/ startsWith(topicOutcome.text, "Set {topic} and {units}: ")
        \/ \E t \in TopicMembers, u \in UnitsMembers :
             /\ topicOutcome.text = ObjectText(t, u, "")
             /\ \/ t \in {"", "\"topic\":\"\"", "\"topic\":7", "\"topic\":null"}
                \/ u \in {"", "\"units\":\"Mechanics\"", "\"units\":null",
                          "\"units\":[]"}

\* C10: whenever topic extraction is rejected or throws, the response is
\* 200 and its topic and units are the keyword-scan fallback of the
\* question, whatever the model's text and the answer step were.
TopicFallbackFromQuestion ==
  (LiveDone /\ topicOutcome.kind # "none" /\ TopicRejected) =>
    /\ response.status = 200
    /\ response.body.topic = FallbackScan(request.question).topic
    /\ response.body.units = FallbackScan(request.question).units

\* C10 witness: the model answered the topic call with prose naming Physics,
\* after a swallowed answer failure, and the topic is the one of the question
TopicFallbackWitness ==
  /\ LiveDone
  /\ answerOutcome.kind = "reject"
  /\ topicOutcome.kind = "resolve"
  /\ topicOutcome.text = "The topic is Physics."
  /\ request.question = "Explain Algebra"
  /\ response.status = 200
  /\ response.body.topic = "General Knowledge"

(***************************************************************************)
(* Properties of the question form (specification SpecForm).               *)
(***************************************************************************)
\* the question is non-blank and the form holds an image file of at most
\* 10 MiB whose MIME type starts with "image/"
FormValid ==
  /\ trim(question) # ""
  /\ image # NoImage
  /\ image.kind = "file"
  /\ image.size <= 10 * 1024 * 1024
  /\ startsWith(image.type, "image/")

\* C3: whatever the user did before, a step of the form issues a request
\* only when the question is non-blank and the image held is present, at
\* most 10 MiB and of an image type, the request carrying that question and
\* image; every other submission is rejected with a notification and no
\* request.
RequestOnlyWhenValid ==
  [][/\ (fetchCall' # fetchCall /\ fetchCall' # NoFetch) =>
          /\ FormValid
          /\ fetchCall = NoFetch
          /\ fetchCall'.question = question
          /\ fetchCall'.image = image
     /\ (handleSubmit /\ ~FormValid) =>
          /\ fetchCall' = NoFetch
          /\ toasts'.title \in {"Question required", "Image required"}]_vars

\* C3 witness: a request is in flight with the image of exactly 10 MiB the
\* form kept when the user then picked a file that was too large
RequestOnlyWhenValidWitness ==
  /\ fetchCall # NoFetch
  /\ fetchCall.image.size = 10 * 1024 * 1024
  /\ toasts.title = "File too large"
  /\ ~isDemoMode

(***************************************************************************)
(* Further properties of the live endpoint (specification Spec).           *)
(***************************************************************************)
\* the object {"topic":"Physics","units":["Unit 1","Unit 2"]}, written with
\* separator sp
TwoUnitObject(sp) ==
  ObjectText("\"topic\":\"Physics\"", "\"units\":" \o UnitsArrayText(2, sp), sp)

\* that object in code fences, alone or with text before and after
FencedTexts ==
  UNION {{Fenced(TwoUnitObject(sp)),
          "Here is the JSON:\n" \o Fenced(TwoUnitObject(sp)) \o "\nHope this helps!",
          "Set {topic} and {units}: " \o Fenced(TwoUnitObject(sp))}
         : sp \in {"", "\n  "}}

\* C11: when the topic call answers with a valid {topic, units} object in
\* markdown code fences, with or without text around the fences, the
\* response carries exactly the topic and the units of that object.
FencedObjectExtracted ==
  (LiveDone /\ response.status = 200 /\ topicOutcome.kind = "resolve"
     /\ topicOutcome.text \in FencedTexts) =>
    /\ response.body.topic = "Physics"
    /\ response.body.units = <<"Unit 1", "Unit 2">>

(***************************************************************************)
(* Further properties of the client (specification SpecForm).              *)
(***************************************************************************)
\* the names of the members of a parsed object, in order
Keys(o) == [i \in 1..Len(o.m) |-> o.m[i].k]

\* C12: the Result the results page has loaded from storage is the body of a
\* successful response field for field, in the body's order, with only
\* originalQuestion (a question that was submitted) and timestamp added.
StoredRoundTrip ==
  (pathname = "/results" /\ parsedResult # NoResult) =>
    \E o \in SettledFetches :
      /\ ~SubmitErrors[o].thrown
      /\ parsedResult.t = "object"
      /\ Keys(parsedResult) = Keys(o.json.val) \o <<"originalQuestion", "timestamp">>
      /\ \A i \in 1..Len(o.json.val.m) : parsedResult.m[i] = o.json.val.m[i]
      /\ Get(parsedResult, "originalQuestion") \in
           {Str(q) : q \in {v \in FormQuestions : trim(v) # ""}}
      /\ Get(parsedResult, "timestamp") = Str(Timestamp)

\* C12 witness: the results page holds a loaded Result with its nested
\* metadata and its three units
StoredRoundTripWitness ==
  /\ pathname = "/results"
  /\ parsedResult # NoResult
  /\ Get(Get(parsedResult, "metadata"), "imageSize") = Num(10485760)
  /\ Get(parsedResult, "units") = Arr(<<Str("Mechanics"), Str("Energy"), Str("Forces")>>)
  /\ Get(parsedResult, "originalQuestion") = Str("What is force?")

\* the message the claim C13 assigns to a failed fetch: by the status of the
\* response, and the raw error message for every other failure
MessageByStatus(o) ==
  IF o.kind = "resolve" /\ o.status = 404
  THEN "API endpoint not found. Please check your configuration."
  ELSE IF o.kind = "resolve" /\ o.status = 401
  THEN "API key is invalid or missing. Please check your Gemini API key."
  ELSE IF o.kind = "resolve" /\ o.status = 403
  THEN "API access denied. Please check your API key permissions."
  ELSE IF o.kind = "resolve" /\ o.status = 429
  THEN "Rate limit exceeded. Please try again in a few moments."
  ELSE SubmitErrors[o].message

\* C13: when a submission fails, the message shown is decided by the HTTP
\* status of the response: 404, 401, 403 and 429 give their fixed messages
\* and every other failure shows the raw error message.
StatusDecidesMessage ==
  [][\A o \in SettledFetches :
       (SubmitErrors[o].thrown /\ FetchSettles(o, FALSE)) =>
         toasts' = Toast("Error", MessageByStatus(o), "destructive")]_vars

\* the four categories of a failed answer call, in the order of the claims
\* C14 and C15, and the status each one ends the request with (0: none)
CategoryStatus(e) ==
  IF MessageIncludes(e, "404") \/ e.status = 404 THEN 503
  ELSE IF MessageIncludes(e, "quota") \/ e.status = 429 THEN 429
  ELSE IF MessageIncludes(e, "timeout") THEN 408
  ELSE IF MessageIncludes(e, "SAFETY") \/ MessageIncludes(e, "blocked") THEN 400
  ELSE 0

\* the number of categories an error matches
CategoryCount(e) ==
  Cardinality({c \in {"404", "quota", "timeout", "safety"} :
     \/ c = "404" /\ (MessageIncludes(e, "404") \/ e.status = 404)
     \/ c = "quota" /\ (MessageIncludes(e, "quota") \/ e.status = 429)
     \/ c = "timeout" /\ MessageIncludes(e, "timeout")
     \/ c = "safety" /\ (MessageIncludes(e, "SAFETY") \/ MessageIncludes(e, "blocked"))})

\* the answer step of the current request has failed: the race rejected, or
\* it resolved with no candidates or no content parts
AnswerFailed ==
  \/ answerOutcome.kind = "reject"
  \/ /\ answerOutcome.kind = "resolve"
     /\ \/ answerOutcome.result.candidates # "some"
        \/ answerOutcome.result.parts # "some"

\* the error the catch block of step 1 receives
AnswerFailure ==
  IF answerOutcome.kind = "reject" THEN answerOutcome.err
  ELSE IF answerOutcome.result.candidates # "some"
  THEN Error("Error", "No response candidates received from Gemini", 0)
  ELSE Error("Error", "No content parts in response", 0)

\* C14: a failed answer call of a category ends the live request at once
\* with 503, 429, 408 or 400, the first matching category in the order
\* not-found, quota, timeout, safety deciding, and the topic call is never
\* made for that request.
ClassifiedFailureAborts ==
  (endpoint = "live" /\ AnswerFailed /\ CategoryStatus(AnswerFailure) # 0) =>
    /\ pc = "done"
    /\ response.status = CategoryStatus(AnswerFailure)
    /\ DOMAIN response.body = {"error"}
    /\ topicCall = "none"
    /\ topicTimer = "off"
    /\ topicOutcome = NoOutcome

\* an error of several categories has ended a live request
ClassifiedFailureAbortsWitness ==
  /\ endpoint = "live"
  /\ pc = "done"
  /\ answerOutcome.kind = "reject"
  /\ CategoryCount(answerOutcome.err) >= 3
  /\ response.status = 503
  /\ topicCall = "none"

\* C15: a failed answer step of no category does not end the live request:
\* the answer is the generic apology, the topic call is made and the
\* response is 200.
UnclassifiedFailureContinues ==
  (endpoint = "live" /\ AnswerFailed /\ CategoryStatus(AnswerFailure) = 0) =>
    /\ answer = GenericAnswer
    /\ \/ pc = "awaitTopic" /\ topicCall = "pending" /\ response = NoResponse
       \/ /\ pc = "done"
          /\ topicCall # "none"
          /\ topicOutcome # NoOutcome
          /\ response.status = 200
          /\ response.body.answer = GenericAnswer
          /\ response.body.topic = topicInfo.topic

\* a response without candidates has been answered 200 with the apology
UnclassifiedFailureContinuesWitness ==
  /\ endpoint = "live"
  /\ pc = "done"
  /\ answerOutcome.kind = "resolve"
  /\ answerOutcome.result.candidates = "empty"
  /\ topicOutcome.kind = "resolve"
  /\ response.status = 200
  /\ response.body.answer = GenericAnswer

\* the response is a Result of the demo endpoint
DemoResult(r) ==
  /\ r.status = 200
  /\ DOMAIN r.body = {"answer", "visualization", "topic", "units"}
  /\ r.body.answer # ""
  /\ r.body.visualization # ""
  /\ r.body.topic # ""
  /\ Len(r.body.units) >= 1

\* C16: the demo endpoint answers 400 exactly when the question or the
\* image is missing, before the delay, and 200 with a Result for every
\* request with both present.
DemoStatusByPresence ==
  endpoint = "demo" =>
    /\ pc = "demoDelay" =>
         ~(QuestionMissing(request) \/ ImageMissing(request))
    /\ pc = "done" =>
         /\ response.status = 400 <=>
              (QuestionMissing(request) \/ ImageMissing(request))
         /\ ~(QuestionMissing(request) \/ ImageMissing(request)) =>
              DemoResult(response)

\* C16, amended: when the body can be read as form data the demo endpoint
\* answers 400, before the delay, exactly when the question is absent or
\* empty or the image is absent, and 200 with a Result otherwise, whatever
\* the image's type and size and the question's length; a body that cannot
\* be read is answered 500 before the delay.
DemoStatusByPresenceParsed ==
  endpoint = "demo" =>
    /\ pc = "demoDelay" =>
         /\ ~request.malformed
         /\ ~(QuestionMissing(request) \/ ImageMissing(request))
    /\ (pc = "done" /\ request.malformed) =>
         /\ response.status = 500
         /\ DOMAIN response.body = {"error"}
    /\ (pc = "done" /\ ~request.malformed) =>
         IF QuestionMissing(request) \/ ImageMissing(request)
         THEN /\ response.status = 400
              /\ DOMAIN response.body = {"error"}
         ELSE DemoResult(response)

\* a blank question with an oversized file that is no image has been
\* answered 200 by the demo endpoint
DemoStatusByPresenceWitness ==
  /\ endpoint = "demo"
  /\ pc = "done"
  /\ request.question = "  "
  /\ request.image.kind = "file"
  /\ request.image.type = "application/pdf"
  /\ request.image.size = maxSize + 1
  /\ DemoResult(response)

\* C17: the two model calls of a live request are sequential: the topic
\* call is started only when the answer step has finished, by a result or
\* by an error that was caught and replaced, and the two calls are never
\* outstanding together.
CallsSequential ==
  endpoint = "live" =>
    /\ ~(answerCall = "pending" /\ topicCall = "pending")
    /\ topicCall # "none" =>
         /\ answerCall = "settled"
         /\ answerOutcome.kind # "none"
         /\ answer # ""
         /\ ~AnswerStep(answerOutcome).abort

\* the topic call is outstanding after the answer call was rejected and its
\* error replaced by the generic answer
CallsSequentialWitness ==
  /\ endpoint = "live"
  /\ pc = "awaitTopic"
  /\ topicCall = "pending"
  /\ answerCall = "settled"
  /\ answerOutcome.kind = "reject"
  /\ answer = GenericAnswer

\* a live request has passed validation and has no response yet
LiveWaiting == endpoint = "live" /\ pc \in {"awaitAnswer", "awaitTopic"}

\* an answer call that lost the race to its timer ends in 408
AnswerTimedOut408 ==
  (LiveDone /\ answerOutcome.kind = "reject" /\ answerOutcome.err = AnswerTimeoutError) =>
    /\ response.status = 408
    /\ topicCall = "none"

\* a topic call that lost the race to its timer ends in 200 with the
\* fallback topic of the question
TopicTimedOut200 ==
  (LiveDone /\ topicOutcome = TopicTimeoutOutcome) =>
    /\ response.status = 200
    /\ topicInfo = Fallback(request.question)
    /\ response.body.topic = FallbackScan(request.question).topic
    /\ response.body.units = FallbackScan(request.question).units

\* a timer firing after its race was settled
LateTimer ==
  \/ answerTimer = "armed" /\ answerTimer' = "fired" /\ pc # "awaitAnswer"
  \/ topicTimer = "armed" /\ topicTimer' = "fired" /\ pc # "awaitTopic"

\* C18: every live request that passed validation gets a response even if
\* the model never answers: an answer call that lost to its 30 s timer ends
\* in 408, a topic call that lost to its 15 s timer ends in 200 with the
\* fallback topic, and a timer that fires after its race was settled
\* changes nothing of the response.
EventuallyAnswered ==
  /\ [](AnswerTimedOut408 /\ TopicTimedOut200)
  /\ [][LateTimer => (response' = response /\ pc' = pc /\ answer' = answer
                       /\ topicInfo' = topicInfo)]_vars
  /\ LiveWaiting ~> (LiveDone /\ response.status \in {200, 400, 408, 429, 503})

\* the answer timer fired late and the topic call never answered: the
\* request is answered 200 with the fallback topic
EventuallyAnsweredWitness ==
  /\ LiveDone
  /\ answerCall = "settled"
  /\ answerTimer = "fired"
  /\ topicCall = "pending"
  /\ topicTimer = "fired"
  /\ topicOutcome = TopicTimeoutOutcome
  /\ response.status = 200
  /\ topicInfo.source = "fallback"

\* C19: while the request of the form is in flight the progress value stays
\* below 100 whatever the number of ticks, and a value of 100 or more is
\* exactly 100, set when the request has settled.
ProgressBelowHundred ==
  /\ fetchCall # NoFetch => progress < 100
  /\ progress >= 100 => (progress = 100 /\ fetchCall = NoFetch /\ ~isLoading)

\* the request of the form settles: fetch has resolved or rejected and the
\* rest of handleSubmit has run, the form staying on the page
FormSettleStep ==
  fetchCall # NoFetch /\ fetchCall' = NoFetch /\ pathname' = pathname

\* a settle step clears the timer and enables the form, and with no request
\* in flight only a new submission or the leaving of the page changes the
\* progress value
SettleStepClears ==
  /\ FormSettleStep =>
       /\ ~progressInterval'
       /\ ~isLoading'
       /\ ControlsEnabled'
       /\ progress' \in {0, 100}
  /\ (fetchCall = NoFetch /\ progress' # progress) =>
       \/ fetchCall' # NoFetch /\ progress' = 0
       \/ pathname' # pathname /\ progress' = 0

\* C20: when the request of the form settles, by success or by any failure,
\* the interval of its progress is cleared and isLoading is reset: with no
\* request in flight no timer runs, no tick changes the progress value, and
\* the controls of the form are enabled again.
SettleClearsTimer ==
  /\ [](fetchCall = NoFetch => (~progressInterval /\ ~isLoading))
  /\ [][SettleStepClears]_vars

\* a request has failed on a body that is no JSON after ticks of the
\* timer, and the form is usable again
SettleClearsTimerWitness ==
  /\ Mounted
  /\ fetchCall = NoFetch
  /\ toasts = Toast("Error", "Unexpected token in JSON at position 0", "destructive")
  /\ progress = 0
  /\ ~progressInterval
  /\ ControlsEnabled

\* the request of the form settles with a successful response whose write
\* to localStorage throws
StorageFailureStep ==
  \E o \in SettledFetches : ~SubmitErrors[o].thrown /\ FetchSettles(o, TRUE)

\* C21: a failing write to localStorage in an otherwise successful
\* submission is swallowed: no error is shown, progress is 100, the success
\* notification is shown and the navigation to the results view is set up.
StorageFailureSwallowed ==
  [][StorageFailureStep =>
       /\ toasts' = Toast("Success!", "Answer generated successfully", "default")
       /\ progress' = 100
       /\ navTimer'
       /\ localStorage' = localStorage
       /\ ~isLoading']_vars

\* a first submission has succeeded although nothing could be stored
StorageFailureSwallowedWitness ==
  /\ pathname = "/"
  /\ fetchCall = NoFetch
  /\ ~localStorage.present
  /\ toasts = Toast("Success!", "Answer generated successfully", "default")
  /\ progress = 100
  /\ navTimer

\* the six checks of the claim C22 in their order: which of them is the
\* first to fail for the request req under the environment e, "none" when
\* all pass; a text field sent as image has no type to check and is left to
\* "other" once the four checks before the type check have passed
FirstFailingCheck(e, req) ==
  IF ~e.GEMINI_API_KEY THEN "credential"
  ELSE IF req.malformed THEN "malformed"
  ELSE IF ~req.hasQuestion \/ req.question = "" \/ req.image.kind = "missing"
  THEN "missing"
  ELSE IF Len(trim(req.question)) < 3 THEN "short"
  ELSE IF req.image.kind # "file" THEN "other"
  ELSE IF ~startsWith(req.image.type, "image/") THEN "type"
  ELSE IF req.image.size > 10 * 1024 * 1024 THEN "size"
  ELSE "none"

\* the response each failing check decides
ResponseOfCheck ==
  [credential |-> Respond(500, [error |-> "Gemini API key is not configured. Please set GEMINI_API_KEY in your environment variables."]),
   malformed |-> Respond(400, [error |-> "Invalid form data format"]),
   missing |-> Respond(400, [error |-> "Both question and image are required."]),
   short |-> Respond(400, [error |-> "Question must be at least 3 characters long."]),
   type |-> Respond(400, [error |-> "Invalid file type. Please upload an image file (JPEG, PNG, GIF, WebP)."]),
   size |-> Respond(413, [error |-> "Image file too large. Maximum size is 10MB."])]

\* C22: the live endpoint applies its checks in the order credential,
\* malformed body, missing question or image, short question, type of the
\* image, size of the image, and the first failing check alone decides the
\* response.
FirstFailingCheckDecides ==
  (endpoint = "live" /\ FirstFailingCheck(env, request) \in DOMAIN ResponseOfCheck) =>
    /\ pc = "done"
    /\ response = ResponseOfCheck[FirstFailingCheck(env, request)]
    /\ answerCall = "none"

\* an oversized file that is no image has been answered 400 for its type
FirstFailingCheckDecidesWitness ==
  /\ endpoint = "live"
  /\ pc = "done"
  /\ env.GEMINI_API_KEY
  /\ request.image.kind = "file"
  /\ request.image.type = "application/pdf"
  /\ request.image.size = maxSize + 1
  /\ response = ResponseOfCheck["type"]

\* C24: every successful submission overwrites the item stored under
\* "answerResult" with its own Result before the navigation is set up, so
\* that the results view loads the Result of the submission that led to it.
SuccessOverwritesStored ==
  [][\A o \in SettledFetches :
       (~SubmitErrors[o].thrown /\ fetchCall # NoFetch
          /\ \E storageFails \in BOOLEAN : FetchSettles(o, storageFails)) =>
         /\ navTimer'
         /\ localStorage' = [present |-> TRUE,
                             value |-> resultData(o.json.val, fetchCall.question)]]_vars

\* a step that sends a request of the form
RequestSent == handleSubmit /\ fetchCall' # NoFetch

\* C25: a form never has two requests in flight: isLoading is true exactly
\* while the request is in flight, and a request is sent only with no
\* request in flight and isLoading false, which the sending sets.
OneRequestInFlight ==
  /\ [](isLoading <=> fetchCall # NoFetch)
  /\ [][RequestSent => (fetchCall = NoFetch /\ ~isLoading /\ isLoading')]_vars

\* a second request of the form is in flight after its first one failed
OneRequestInFlightWitness ==
  /\ Mounted
  /\ fetchCall # NoFetch
  /\ isLoading
  /\ toasts.title = "Error"
  /\ progress > 0

\* the request of the form settles with a failure
FailureStep ==
  \E o \in SettledFetches : SubmitErrors[o].thrown /\ FetchSettles(o, FALSE)

\* C26: a failed submission leaves the item stored under "answerResult" as
\* it was, sets up no navigation to the results view and resets progress
\* to 0.
FailureLeavesStored ==
  [][FailureStep =>
       /\ localStorage' = localStorage
       /\ navTimer' = navTimer
       /\ pathname' = pathname
       /\ progress' = 0
       /\ toasts'.title = "Error"]_vars

\* a submission has failed on a 2xx body without answer or topic after ticks
\* of its timer, the Result of the submission before it still being stored
FailureLeavesStoredWitness ==
  /\ pathname = "/"
  /\ fetchCall = NoFetch
  /\ localStorage.present
  /\ toasts = Toast("Error", "Invalid response format from server", "destructive")
  /\ progress = 0

(***************************************************************************)
(* Properties of the result renderer (specification SpecDisplay).          *)
(***************************************************************************)
\* the number of characters * of a line
StarCount(line) == Cardinality({i \in 1..Len(line) : CharAt(line, i) = "*"})

\* the line holds unmatched delimiters only: a single *, or one ** that is
\* never closed
UnmatchedOnly(line) ==
  \/ StarCount(line) = 1
  \/ StarCount(line) = 2 /\ includes(line, "**")

\* the characters a rendered line shows
RECURSIVE ShownText(_)
ShownText(children) ==
  IF Len(children) = 0 THEN ""
  ELSE children[1].text \o ShownText(SubSeq(children, 2, Len(children)))

\* C23: a line of the answer that reaches the emphasis parsing with
\* unmatched delimiters only is shown literally: no character is dropped
\* and no strong or italic span is produced.
UnmatchedShownLiterally ==
  (/\ rendered # NotRendered
   /\ ~isHeader(answerLine)
   /\ ~isBulletPoint(answerLine)
   /\ UnmatchedOnly(answerLine)) =>
    /\ ShownText(rendered.children) = answerLine
    /\ \A k \in 1..Len(rendered.children) : rendered.children[k].tag = "text"

\* a single * is shown literally on every line other than the line "*"
SingleStarInside ==
  (/\ rendered # NotRendered
   /\ ~isHeader(answerLine)
   /\ ~isBulletPoint(answerLine)
   /\ StarCount(answerLine) = 1
   /\ answerLine # "*") =>
    /\ ShownText(rendered.children) = answerLine
    /\ \A k \in 1..Len(rendered.children) : rendered.children[k].tag = "text"

\* every line with one unclosed ** loses it to an empty strong span
DoubleStarDropped ==
  (/\ rendered # NotRendered
   /\ ~isHeader(answerLine)
   /\ ~isBulletPoint(answerLine)
   /\ StarCount(answerLine) = 2 /\ includes(answerLine, "**")) =>
    /\ ShownText(rendered.children) # answerLine
    /\ \E k \in 1..Len(rendered.children) : rendered.children[k] = Node("strong", "")

\* the panel after and the panel before each panel in the cyclic order
\* answer, visualization, summary, insights
NextPanel ==
  [answer |-> "visualization", visualization |-> "summary",
   summary |-> "insights", insights |-> "answer"]

PrevPanel ==
  [answer |-> "insights", visualization |-> "answer",
   summary |-> "visualization", insights |-> "summary"]

\* moving back from the panel reached by moving on gives the panel again
PrevUndoesNext ==
  \A k \in 0..(Len(panels) - 1) :
    PanelId(newIndex("prev", newIndex("next", k))) = PanelId(k)

\* what the steps next, previous and the two toggles do to the active panel
PanelStep ==
  /\ navigatePanel("next") => activePanel' = NextPanel[activePanel]
  /\ navigatePanel("prev") => activePanel' = PrevPanel[activePanel]
  /\ (ToggleExpanded \/ ToggleShowAll) => activePanel' = activePanel

\* C27: the active panel is always one of answer, visualization, summary
\* and insights; next and previous move through that order cyclically with
\* wrap-around, previous undoes next, and toggling the all-panels view or the
\* expanded view leaves the active panel unchanged.
ActivePanelCycles ==
  /\ [](activePanel \in DOMAIN NextPanel /\ PrevUndoesNext)
  /\ [][PanelStep]_vars

\* the last panel is active in the expanded single view and next wraps to
\* the first
ActivePanelCyclesWitness ==
  /\ activePanel = "insights"
  /\ isExpanded
  /\ ~showAllPanels
  /\ ENABLED (navigatePanel("next") /\ activePanel' = "answer")

====
